---- MODULE Spec2Model ----
(***************************************************************************)
(* A model of the devplan-mcp brief-to-plan text pipeline:                 *)
(*   generators.py  generate_tech_stack, generate_phases, generate_plan    *)
(*   templates.py   select_template, EmbeddedLoader.get_source, render_plan*)
(*   server.py      _extract_subtask_from_plan, devplan_update_progress,   *)
(*                  _parse_brief_content, devplan_create_brief,            *)
(*                  devplan_validate_plan                                  *)
(*   parser.py      parse_markdown_content, parse_project_brief and the    *)
(*                  extractors it calls                                    *)
(*   models.py      validate_prerequisites, validate_best_practices,       *)
(*                  validate_circular_dependencies                         *)
(*                                                                         *)
(* Text is modelled in two ways.  Short strings that the code compares by  *)
(* substring or case (project types, technology names) are sequences of    *)
(* one-character strings.  Documents are sequences of chunks, each chunk a *)
(* literal piece of text; the document is the concatenation of its chunks. *)
(* The chunk vocabulary is chosen so that every regular expression of the  *)
(* code matches on chunk boundaries.                                       *)
(***************************************************************************)
EXTENDS Naturals, Sequences, FiniteSets, TLC

VARIABLES
    brief,            \* generate_plan: the ProjectBrief given
    plan_result,      \* generate_plan: what the call returned or raised
    plan_content,     \* the DEVELOPMENT_PLAN.md text the client holds
    subtask_id,       \* the subtask id the client asks about
    completion_notes, \* the notes the client passes to devplan_update_progress
    prev_content,     \* plan_content as passed to the last devplan_update_progress
    calls,            \* number of devplan_update_progress calls made
    response,         \* what the last devplan_update_progress returned or raised
    view,             \* what _extract_subtask_from_plan returned for plan_content
    located_span,     \* _extract_subtask_from_plan: start_pos and end_pos of its section
    patched_span,     \* devplan_update_progress: subtask_start and section_end of its section
    render_name,      \* render_plan: the template_name given, split at "/"
    render_phases,    \* render_plan: the phases given
    rendered,         \* render_plan: what the call returned or raised
    brief_content,    \* parse_project_brief: the brief text given
    parsed,           \* parse_project_brief: what the call returned or raised
    extracted,        \* parse_project_brief: what extract_basic_info returned
    loaded,           \* _parse_brief_content: what the call returned or raised
    templates_table,  \* templates.py: the module-level dict TEMPLATES
    phases_table,     \* generators.py: the module-level dict DEFAULT_PHASES
    callers,          \* the calls in progress: operation, argument, position, result
    checked_plan,     \* validate_prerequisites: the DevelopmentPlan it is called on
    prereq_errors,    \* validate_prerequisites: what the call returned
    checked_subtask,  \* validate_best_practices: the Subtask it is called on
    practice_warnings, \* validate_best_practices: what the call returned
    create_input,     \* devplan_create_brief: the CreateBriefInput given
    watched_id,       \* the subtask whose completed flag the client follows
    completed_earlier, \* the flag was true on a document since then patched
    markdown_content, \* parse_markdown_content: the text given
    section_map,      \* parse_markdown_content: the mapping returned
    cycle_plan,       \* validate_circular_dependencies: the plan it is called on
    cycle_errors,     \* validate_circular_dependencies: what the call returned
    validate_params,  \* devplan_validate_plan: the ValidatePlanInput given
    validation_report \* devplan_validate_plan: the findings and the report

genVars == <<brief, plan_result>>
patchVars ==
    <<plan_content, subtask_id, completion_notes, prev_content, calls, response, view,
      located_span, patched_span>>
renderVars == <<render_name, render_phases, rendered>>
parseVars == <<brief_content, parsed, extracted, loaded>>
sharedVars == <<templates_table, phases_table, callers>>
\* The variables of the pipelines that are studied on their own.
validateVars == <<checked_plan, prereq_errors, checked_subtask, practice_warnings>>
monotoneVars == <<watched_id, completed_earlier>>
sectionVars == <<markdown_content, section_map>>
\* The variables of the studies that follow the one of the completed flag.
cycleVars == <<cycle_plan, cycle_errors>>
reportVars == <<validate_params, validation_report>>
studyVars == <<sectionVars, cycleVars, reportVars>>
laterVars == <<monotoneVars, studyVars>>
otherVars == <<sharedVars, validateVars, create_input, laterVars>>
vars == <<genVars, patchVars, renderVars, parseVars, otherVars>>

(***************************************************************************)
(* Bounds of the model.                                                    *)
(***************************************************************************)
MaxMustUse == 2
MaxCannotUse == 1
MaxLines == 3
MaxCalls == 2
MaxSubtasks == 2
MaxCallers == 2
MaxPrerequisites == 2
MaxDeliverables == 8
MaxFeatures == 2
MaxMarkdownLines == 4
MaxCycleSubtasks == 3
MaxSections == 2

(***************************************************************************)
(* Generic helpers.                                                        *)
(***************************************************************************)
SeqsUpTo(S, n) == UNION {[1..k -> S] : k \in 0..n}

\* Python's  a in b  for strings: a occurs in b as a contiguous substring.
IsSubstr(a, b) ==
    \E i \in 0..(Len(b) - Len(a)) :
        \A k \in 1..Len(a) : b[i + k] = a[k]

\* str.lower() on one character (the letters the inputs use).
LowerChar(c) ==
    CASE c = "A" -> "a" [] c = "C" -> "c" [] c = "D" -> "d" [] c = "G" -> "g"
      [] c = "H" -> "h" [] c = "I" -> "i" [] c = "L" -> "l" [] c = "N" -> "n"
      [] c = "O" -> "o" [] c = "P" -> "p" [] c = "R" -> "r" [] c = "T" -> "t"
      [] c = "W" -> "w" [] c = "Y" -> "y"
      [] OTHER -> c

Lower(s) == [i \in 1..Len(s) |-> LowerChar(s[i])]

RECURSIVE StripLeft(_)
StripLeft(s) == IF s # <<>> /\ Head(s) = " " THEN StripLeft(Tail(s)) ELSE s

RECURSIVE StripRight(_)
StripRight(s) ==
    IF s # <<>> /\ s[Len(s)] = " " THEN StripRight(SubSeq(s, 1, Len(s) - 1)) ELSE s

\* str.strip()
Strip(s) == StripLeft(StripRight(s))

(***************************************************************************)
(* templates.py: the TEMPLATES table (names and project_types aliases).    *)
(***************************************************************************)
TemplateOrder == <<"base", "cli", "web_app", "api", "library">>

ProjectTypesOf(name) ==
    CASE name = "cli" ->
           << <<"c", "l", "i">>,
              <<"c", "l", "i", " ", "t", "o", "o", "l">>,
              <<"c", "o", "m", "m", "a", "n", "d", " ", "l", "i", "n", "e">>,
              <<"c", "o", "m", "m", "a", "n", "d", "-", "l", "i", "n", "e">> >>
      [] name = "web_app" ->
           << <<"w", "e", "b", " ", "a", "p", "p">>,
              <<"w", "e", "b", " ", "a", "p", "p", "l", "i", "c", "a", "t", "i", "o", "n">>,
              <<"w", "e", "b", "a", "p", "p">>,
              <<"w", "e", "b">> >>
      [] name = "api" ->
           << <<"a", "p", "i">>,
              <<"r", "e", "s", "t", " ", "a", "p", "i">>,
              <<"g", "r", "a", "p", "h", "q", "l">>,
              <<"b", "a", "c", "k", "e", "n", "d">>,
              <<"s", "e", "r", "v", "i", "c", "e">> >>
      [] name = "library" ->
           << <<"l", "i", "b", "r", "a", "r", "y">>,
              <<"p", "a", "c", "k", "a", "g", "e">>,
              <<"m", "o", "d", "u", "l", "e">>,
              <<"s", "d", "k">> >>
      [] OTHER -> << <<"d", "e", "f", "a", "u", "l", "t">> >>

\* The files a family of TEMPLATES holds.
TemplateFiles(name) == IF name = "base" THEN {"plan.md.j2", "claude.md.j2"} ELSE {}

\* select_template: the first family, in table order and skipping "base", one
\* of whose aliases equals, contains or is contained in the normalised type.
TemplateMatches(name, normalized) ==
    \E k \in 1..Len(ProjectTypesOf(name)) :
        LET ptype == ProjectTypesOf(name)[k]
        IN  normalized = ptype \/ IsSubstr(normalized, ptype) \/ IsSubstr(ptype, normalized)

select_template(project_type) ==
    LET normalized == Strip(Lower(project_type))
        hits == {i \in 2..Len(TemplateOrder) : TemplateMatches(TemplateOrder[i], normalized)}
    IN  IF hits = {} THEN "base"
        ELSE TemplateOrder[CHOOSE i \in hits : \A j \in hits : i <= j]

(***************************************************************************)
(* generators.py: DEFAULT_PHASES.  A title is its sequence of words.       *)
(***************************************************************************)
DEFAULT_PHASES(name) ==
    CASE name = "cli" ->
           << [title |-> <<"Foundation">>, goal |-> "Set up CLI project structure and argument parsing"],
              [title |-> <<"Core", "Commands">>, goal |-> "Implement primary CLI commands"],
              [title |-> <<"Advanced", "Features">>, goal |-> "Add options, configuration, and error handling"],
              [title |-> <<"Polish", "&", "Release">>, goal |-> "Testing, documentation, and PyPI packaging"] >>
      [] name = "web_app" ->
           << [title |-> <<"Foundation">>, goal |-> "Set up frontend and backend infrastructure"],
              [title |-> <<"Authentication", "&", "Users">>, goal |-> "Implement user management and auth flows"],
              [title |-> <<"Core", "Features">>, goal |-> "Build primary application features"],
              [title |-> <<"Integration", "&", "Polish">>, goal |-> "Connect components, add styling, deploy"] >>
      [] name = "api" ->
           << [title |-> <<"Foundation">>, goal |-> "Set up API framework and database connections"],
              [title |-> <<"Core", "Endpoints">>, goal |-> "Implement primary API endpoints"],
              [title |-> <<"Auth", "&", "Security">>, goal |-> "Add authentication, validation, rate limiting"],
              [title |-> <<"Documentation", "&", "Deploy">>, goal |-> "API docs, testing, containerization"] >>
      [] name = "library" ->
           << [title |-> <<"Foundation">>, goal |-> "Set up package structure and tooling"],
              [title |-> <<"Core", "API">>, goal |-> "Implement primary library functions/classes"],
              [title |-> <<"Advanced", "Features">>, goal |-> "Add edge case handling and optimizations"],
              [title |-> <<"Release">>, goal |-> "Documentation, examples, and package publishing"] >>
      [] OTHER ->
           << [title |-> <<"Foundation">>, goal |-> "Set up project infrastructure and development environment"],
              [title |-> <<"Core", "Features">>, goal |-> "Implement primary functionality"],
              [title |-> <<"Polish", "&", "Testing">>, goal |-> "Refine features and ensure quality"],
              [title |-> <<"Documentation", "&", "Release">>, goal |-> "Complete documentation and prepare for release"] >>

\* str(i) for the indices enumerate() yields over a phase table.
IntToStr(i) ==
    CASE i = 0 -> "0" [] i = 1 -> "1" [] i = 2 -> "2" [] i = 3 -> "3"
      [] i = 4 -> "4" [] OTHER -> "5"

\* Mutant of generate_phases: ids count from 1 (enumerate(..., start=1)).
generate_phases_ids_from_one(b) ==
    LET phase_templates == DEFAULT_PHASES(select_template(b.project_type))
    IN  [i \in 1..Len(phase_templates) |->
            [id |-> IntToStr(i),
             title |-> phase_templates[i].title,
             goal |-> phase_templates[i].goal,
             days |-> "",
             description |-> "",
             tasks |-> <<>>]]

\* generate_phases: one Phase per entry of the selected family's table.
generate_phases(b) ==
    LET template_name == select_template(b.project_type)
        phase_templates == DEFAULT_PHASES(template_name)
    IN  [i \in 1..Len(phase_templates) |->
            [id |-> IntToStr(i - 1),
             title |-> phase_templates[i].title,
             goal |-> phase_templates[i].goal,
             days |-> "",
             description |-> "",
             tasks |-> <<>>]]

(***************************************************************************)
(* generators.py: generate_tech_stack.                                     *)
(***************************************************************************)
LanguageKeys ==
    { <<"p", "y", "t", "h", "o", "n">>,
      <<"t", "y", "p", "e", "s", "c", "r", "i", "p", "t">>,
      <<"j", "a", "v", "a", "s", "c", "r", "i", "p", "t">>,
      <<"g", "o">>,
      <<"r", "u", "s", "t">> }

DefaultLanguage == <<"P", "y", "t", "h", "o", "n", " ", "3", ".", "1", "1", "+">>

\* Mutant of TechConflicts: the entries are compared without lower-casing.
TechConflicts_case_sensitive(b) ==
    {b.must_use_tech[i] : i \in 1..Len(b.must_use_tech)}
        \cap {b.cannot_use_tech[i] : i \in 1..Len(b.cannot_use_tech)}

\* set(must_use) & set(cannot_use) over the lower-cased entries.
TechConflicts(b) ==
    {Lower(b.must_use_tech[i]) : i \in 1..Len(b.must_use_tech)}
        \cap {Lower(b.cannot_use_tech[i]) : i \in 1..Len(b.cannot_use_tech)}

IsLanguageEntry(tech) == \E lang \in LanguageKeys : IsSubstr(lang, Lower(tech))

\* Mutant of PickLanguage: the loop has no break, the last entry that names a
\* language is kept.
PickLanguage_last_match(must_use_tech) ==
    LET hits == {i \in 1..Len(must_use_tech) : IsLanguageEntry(must_use_tech[i])}
    IN  IF hits = {} THEN DefaultLanguage
        ELSE must_use_tech[CHOOSE i \in hits : \A j \in hits : j <= i]

\* The for/break loop: the first entry of must_use_tech that names a language.
PickLanguage(must_use_tech) ==
    LET hits == {i \in 1..Len(must_use_tech) : IsLanguageEntry(must_use_tech[i])}
    IN  IF hits = {} THEN DefaultLanguage
        ELSE must_use_tech[CHOOSE i \in hits : \A j \in hits : i <= j]

generate_tech_stack(b) ==
    LET conflicts == TechConflicts(b)
        language == PickLanguage(b.must_use_tech)
        is_python == IsSubstr(<<"p", "y", "t", "h", "o", "n">>, Lower(language))
        is_typescript == IsSubstr(<<"t", "y", "p", "e", "s", "c", "r", "i", "p", "t">>, Lower(language))
        is_javascript == IsSubstr(<<"j", "a", "v", "a", "s", "c", "r", "i", "p", "t">>, Lower(language))
        project_type_lower == Lower(b.project_type)
        framework ==
            IF IsSubstr(<<"c", "l", "i">>, project_type_lower) /\ is_python THEN "Click"
            ELSE IF IsSubstr(<<"a", "p", "i">>, project_type_lower) /\ is_python THEN "FastAPI"
            ELSE IF IsSubstr(<<"w", "e", "b">>, project_type_lower)
                 THEN (IF is_python THEN "Flask"
                       ELSE IF is_typescript \/ is_javascript THEN "React" ELSE "")
            ELSE ""
    IN  IF conflicts # {}
        THEN [raised |-> "ValueError", kind |-> "Conflicting constraints", conflicts |-> conflicts]
        ELSE [raised |-> "",
              language |-> language,
              framework |-> framework,
              database |-> "",
              testing |-> IF is_python THEN "pytest"
                          ELSE IF is_typescript \/ is_javascript THEN "jest" ELSE "",
              linting |-> IF is_python THEN "ruff"
                          ELSE IF is_typescript \/ is_javascript THEN "eslint" ELSE "",
              type_checking |-> IF is_python THEN "mypy"
                                ELSE IF is_typescript THEN "TypeScript" ELSE "",
              deployment |-> "",
              ci_cd |-> "GitHub Actions",
              additional_tools |-> b.must_use_tech]

(***************************************************************************)
(* generators.py: _validate_plan_structure and generate_plan.              *)
(***************************************************************************)
_validate_plan_structure(plan) ==
    (IF plan.project_name = "" THEN <<"Project name is required">> ELSE <<>>)
    \o (IF plan.phases = <<>> THEN <<"Plan must have at least one phase">> ELSE <<>>)
    \o (IF plan.phases # <<>> /\ plan.phases[1].id # "0"
        THEN <<"First phase must have ID '0'">> ELSE <<>>)
    \o (IF plan.phases # <<>> /\ ~(\E w \in 1..Len(plan.phases[1].title) :
                                      plan.phases[1].title[w] = "Foundation")
        THEN <<"Phase 0 should be titled 'Foundation'">> ELSE <<>>)
    \o (IF plan.tech_stack.raised # "" THEN <<"Plan must have a tech stack">> ELSE <<>>)

generate_plan(b) ==
    LET tech_stack == generate_tech_stack(b)
        phases == generate_phases(b)
        plan == [project_name |-> b.project_name, phases |-> phases, tech_stack |-> tech_stack]
        errors == _validate_plan_structure(plan)
    IN  IF tech_stack.raised # ""
        THEN [status |-> "raised", error |-> tech_stack, plan |-> <<>>]
        ELSE IF errors # <<>>
        THEN [status |-> "raised",
              error |-> [raised |-> "ValueError", kind |-> "Plan validation failed", conflicts |-> {}],
              plan |-> <<>>]
        ELSE [status |-> "ok", error |-> <<>>, plan |-> plan]

(***************************************************************************)
(* Inputs of the generation pipeline.                                      *)
(***************************************************************************)
ProjectTypeInputs ==
    { <<"C", "L", "I", " ", "T", "o", "o", "l">>,
      <<"W", "e", "b", " ", "A", "p", "p">>,
      <<"C", "a", "p", "i", "t", "a", "l">>,
      <<"L", "i", "b", "r", "a", "r", "y">>,
      <<"G", "a", "m", "e">> }

TechInputs ==
    { <<"P", "y", "t", "h", "o", "n">>,
      <<"P", "Y", "T", "H", "O", "N">>,
      <<"D", "j", "a", "n", "g", "o">>,
      <<"R", "e", "d", "i", "s">> }

BriefInputs ==
    [project_name : {"Foo"},
     project_type : ProjectTypeInputs,
     must_use_tech : SeqsUpTo(TechInputs, MaxMustUse),
     cannot_use_tech : SeqsUpTo(TechInputs, MaxCannotUse)]

NoCall == [status |-> "none", error |-> <<>>, plan |-> <<>>]

NoBrief == [project_name |-> "", project_type |-> <<>>,
            must_use_tech |-> <<>>, cannot_use_tech |-> <<>>]

NoResponse == [raised |-> FALSE, text |-> <<>>]
NoView == [none |-> TRUE]
NoSpan == [called |-> FALSE]

\* The two tables as the modules define them: TEMPLATES in the order of its
\* keys, DEFAULT_PHASES by key.
InitialTemplates ==
    [i \in 1..Len(TemplateOrder) |->
        [name |-> TemplateOrder[i],
         project_types |-> ProjectTypesOf(TemplateOrder[i]),
         files |-> TemplateFiles(TemplateOrder[i])]]
InitialPhases ==
    [name \in {TemplateOrder[i] : i \in 1..Len(TemplateOrder)} |-> DEFAULT_PHASES(name)]

\* The tables are loaded and no caller is at work.
SharedIdle ==
    /\ templates_table = InitialTemplates
    /\ phases_table = InitialPhases
    /\ callers = <<>>
NotValidated == [called |-> FALSE, messages |-> <<>>]
ValidateIdle ==
    /\ checked_plan = <<>>
    /\ prereq_errors = NotValidated
    /\ checked_subtask = <<>>
    /\ practice_warnings = NotValidated
NoInput == [none |-> TRUE]
CreateIdle == create_input = NoInput
MonotoneIdle == watched_id = "" /\ completed_earlier = FALSE
SectionsIdle == markdown_content = <<>> /\ section_map = [status |-> "none"]
CyclesIdle == cycle_plan = <<>> /\ cycle_errors = [called |-> FALSE]
ReportIdle == validate_params = [none |-> TRUE] /\ validation_report = [called |-> FALSE]
StudyIdle == SectionsIdle /\ CyclesIdle /\ ReportIdle
LaterIdle == MonotoneIdle /\ StudyIdle
OthersIdle == SharedIdle /\ ValidateIdle /\ CreateIdle /\ LaterIdle

\* The variables of the generation pipeline, while another pipeline is studied.
GenIdle == brief = NoBrief /\ plan_result = NoCall

\* The variables of rendering and of brief parsing, while another pipeline
\* is studied.
NoRender == [raised |-> FALSE, text |-> <<"not called">>]
NoParse == [status |-> "none"]
RenderIdle == render_name = <<>> /\ render_phases = <<>> /\ rendered = NoRender
ParseIdle == brief_content = <<>> /\ parsed = NoParse /\ extracted = NoParse /\ loaded = NoParse

\* The variables of the locator/patcher, while another pipeline is studied.
PatchIdle ==
    /\ plan_content = <<>>
    /\ subtask_id = ""
    /\ completion_notes = <<>>
    /\ prev_content = <<>>
    /\ calls = 0
    /\ response = NoResponse
    /\ view = NoView
    /\ located_span = NoSpan
    /\ patched_span = NoSpan

(***************************************************************************)
(* Specification of the generation pipeline: a brief is given, and         *)
(* generate_plan is called on it.                                          *)
(***************************************************************************)
InitGen ==
    /\ brief \in BriefInputs
    /\ plan_result = NoCall
    /\ PatchIdle
    /\ RenderIdle
    /\ ParseIdle
    /\ OthersIdle

GeneratePlan ==
    /\ plan_result.status = "none"
    /\ plan_result' = generate_plan(brief)
    /\ UNCHANGED <<brief, patchVars, renderVars, parseVars, otherVars>>

NextGen == GeneratePlan

SpecGen == InitGen /\ [][NextGen]_vars

(***************************************************************************)
(* Claims about the generation pipeline (checked under SpecGen).           *)
(***************************************************************************)
\* Some entry of must_use_tech equals, ignoring case, some entry of cannot_use_tech.
SharesEntry(b) ==
    \E i \in 1..Len(b.must_use_tech), j \in 1..Len(b.cannot_use_tech) :
        Lower(b.must_use_tech[i]) = Lower(b.cannot_use_tech[j])

\* C1: for every valid brief whose must_use_tech and cannot_use_tech share no
\* entry, generate_plan returns a plan with exactly four phases, ids "0", "1",
\* "2", "3" in that order, none with tasks, the first titled "Foundation",
\* whichever template family the project type selects.
C1_FourPhaseSkeleton ==
    (plan_result.status # "none" /\ ~SharesEntry(brief)) =>
        /\ plan_result.status = "ok"
        /\ Len(plan_result.plan.phases) = 4
        /\ [i \in 1..4 |-> plan_result.plan.phases[i].id] = <<"0", "1", "2", "3">>
        /\ \A i \in 1..4 : plan_result.plan.phases[i].tasks = <<>>
        /\ \E w \in 1..Len(plan_result.plan.phases[1].title) :
               plan_result.plan.phases[1].title[w] = "Foundation"

\* A plan was generated for a type no family claims (fallback to base) from a
\* brief that requires technologies.
C1_Witness ==
    /\ plan_result.status = "ok"
    /\ select_template(brief.project_type) = "base"
    /\ brief.must_use_tech # <<>>
    /\ brief.cannot_use_tech # <<>>

\* C2: when some string occurs, ignoring case, in both must_use_tech and
\* cannot_use_tech, generate_plan raises the conflict error, the error names
\* (in lower case) every such string, and no plan is returned.
C2_ConflictRaises ==
    (plan_result.status # "none" /\ SharesEntry(brief)) =>
        /\ plan_result.status = "raised"
        /\ plan_result.error.kind = "Conflicting constraints"
        /\ plan_result.plan = <<>>
        /\ \A i \in 1..Len(brief.must_use_tech), j \in 1..Len(brief.cannot_use_tech) :
               Lower(brief.must_use_tech[i]) = Lower(brief.cannot_use_tech[j])
                   => Lower(brief.must_use_tech[i]) \in plan_result.error.conflicts

\* The conflict error was raised for two entries that differ in case.
C2_Witness ==
    /\ plan_result.status = "raised"
    /\ \E i \in 1..Len(brief.must_use_tech), j \in 1..Len(brief.cannot_use_tech) :
           /\ brief.must_use_tech[i] # brief.cannot_use_tech[j]
           /\ Lower(brief.must_use_tech[i]) = Lower(brief.cannot_use_tech[j])

\* The lower-cased entry holds the name of a language.
NamesLanguage(tech) ==
    \E key \in {<<"p", "y", "t", "h", "o", "n">>,
                <<"t", "y", "p", "e", "s", "c", "r", "i", "p", "t">>,
                <<"j", "a", "v", "a", "s", "c", "r", "i", "p", "t">>,
                <<"g", "o">>, <<"r", "u", "s", "t">>} :
        \E i \in 0..(Len(tech) - Len(key)) :
            \A k \in 1..Len(key) : LowerChar(tech[i + k]) = key[k]

\* C26: the language of a generated plan is the first entry of must_use_tech,
\* in the order of the list, whose lower-cased form holds 'python',
\* 'typescript', 'javascript', 'go' or 'rust', in the casing the entry was
\* given in; it is 'Python 3.11+' when no entry does; so it is always that
\* default or an entry of must_use_tech.
C26_FirstLanguageEntry ==
    plan_result.status = "ok" =>
        LET must_use_tech == brief.must_use_tech
            language == plan_result.plan.tech_stack.language
        IN  /\ \A i \in 1..Len(must_use_tech) :
                   (/\ NamesLanguage(must_use_tech[i])
                    /\ \A j \in 1..(i - 1) : ~NamesLanguage(must_use_tech[j])) =>
                       language = must_use_tech[i]
            /\ (\A i \in 1..Len(must_use_tech) : ~NamesLanguage(must_use_tech[i])) =>
                   language = <<"P", "y", "t", "h", "o", "n", " ", "3", ".", "1", "1", "+">>
            /\ \/ language = <<"P", "y", "t", "h", "o", "n", " ", "3", ".", "1", "1", "+">>
               \/ \E i \in 1..Len(must_use_tech) : language = must_use_tech[i]

\* A plan generated from two different entries that both name a language,
\* the first one not in lower case: the language is the first, as given.
C26_Witness ==
    /\ plan_result.status = "ok"
    /\ Len(brief.must_use_tech) = 2
    /\ NamesLanguage(brief.must_use_tech[1])
    /\ NamesLanguage(brief.must_use_tech[2])
    /\ brief.must_use_tech[1] # brief.must_use_tech[2]
    /\ brief.must_use_tech[1] # Lower(brief.must_use_tech[1])
    /\ plan_result.plan.tech_stack.language = brief.must_use_tech[1]

(***************************************************************************)
(* Documents.  A document is a sequence of chunks; each chunk is a literal *)
(* piece of text and the document is their concatenation.  The chunks:    *)
(*   SubMarker(id)   the text that opens a subtask, up to its colon        *)
(*   TaskHeading     the text that opens a task                            *)
(*   PhaseHeading(n) the text that opens a phase                           *)
(*   Bold            the two stars that close a subtask title              *)
(*   Star            one star inside running text                          *)
(*   Unchecked, Checked   a list item's checkbox                           *)
(*   IdColon(id)     a subtask id followed by a colon                      *)
(*   NotesHeading    the heading of a completion-notes block               *)
(*   Rule            a horizontal rule                                     *)
(*   SP, NL          one space, one line break                             *)
(*   Word, Preamble  running text without stars, brackets or rules         *)
(* No chunk but SP and NL begins or ends with white space, except          *)
(* ImplLabel, which devplan_update_progress always follows with the notes. *)
(***************************************************************************)
\* The ids of the subtasks of task 1.1, and those a client asks about.
SubtaskIdOf(k) == "1.1." \o IntToStr(k)
SubtaskIds == {SubtaskIdOf(k) : k \in 1..MaxSubtasks}
RequestIds == {SubtaskIdOf(1), SubtaskIdOf(2)}

SubMarker(id) == "**Subtask " \o id \o ":"
TaskHeading == "### Task 1.1:"
\* The text that opens a phase.
PhaseHeading(id) == "## Phase " \o id \o ":"
Bold == "**"
Star == "*"
Unchecked == "- [ ]"
Checked == "- [x]"
IdColon(id) == id \o ":"
\* A bold label that opens a block of a subtask, a task or a phase.
Label(name) == "**" \o name \o "**:"
LabelNames == {"Prerequisites", "Deliverables", "Success Criteria", "Completion Notes", "Goal"}
NotesHeading == Label("Completion Notes")
Rule == "---"
SP == " "
NL == "\n"
Word == "Setup"
Preamble ==
    "# Example Project - Development Plan\n\nThis plan lists the phases, tasks and "
    \o "subtasks of the project in the order in which they are carried out."
Dash == "-"
\* A dotted id with dashes: subtask_id.replace('.', '-').
Dashed(id) == "1-1-" \o IntToStr(CHOOSE k \in 1..(MaxSubtasks + 1) : id = SubtaskIdOf(k))
\* The notes a caller passes: running text, text holding "---", and text
\* holding a backslash followed by a letter that is no escape of re templates.
NoteText == "Initialised the repository"
BadEscape == "see C:\\dir\\notes"
\* The fixed lines of notes_replacement around the caller's notes (the check
\* mark of the Build line is written "OK" here).
ImplLabel == "\n- **Implementation**: "
NotesTail(id) ==
    "\n- **Files Created**: (updated by Claude Code)"
    \o "\n- **Files Modified**: (updated by Claude Code)"
    \o "\n- **Tests**: (updated by Claude Code)"
    \o "\n- **Build**: OK Success"
    \o "\n- **Branch**: feature/" \o Dashed(id)
    \o "\n- **Notes**: Marked complete via MCP"

(***************************************************************************)
(* templates.py: the fixed text of base/plan.md.j2 between the places      *)
(* where a plan's phases, tasks and subtasks are written.  The overview    *)
(* and technology sections hold no marker, heading of a task or checkbox;  *)
(* they are written with the values of one brief.  The emoji of the first  *)
(* heading is left out and back quotes are written as single quotes.       *)
(***************************************************************************)
HowToUse ==
    "# Example Project - Development Plan\n\n## How to Use This Plan\n\n"
    \o "**For Claude Code**: Read this plan, find the subtask ID from the prompt, "
    \o "complete ALL checkboxes, update completion notes, commit.\n\n"
    \o "**For You**: Use this prompt (change only the subtask ID):\n'''\n"
    \o "please re-read claude.md and DEVELOPMENT_PLAN.md (the entire documents, for "
    \o "context, I know it will eat tokens and take time), then continue with [X.Y.Z], "
    \o "following all of the development plan and claude.md rules.\n'''"
Overview ==
    "## Project Overview\n\n**Project Name**: Example Project\n\n"
    \o "**Goal**: Plan a project\n\n**Target Users**: Developers\n\n**Timeline**: 2 weeks"
Stack == "## Technology Stack\n\n**Language**: Python 3.11+"
CurrentNext == "**Current**: Phase 0\n**Next**: 0.1.1"
GitStrategyBlock ==
    "**Git Strategy** (for entire task, NOT per subtask):\n"
    \o "- **Branch**: 'feature/1-1-<short-description>' (create once for task)\n"
    \o "- **Commit Prefix**: 'feat' (or 'fix', 'refactor', 'test', 'docs' as appropriate)\n"
    \o "- **Merge**: squash when task complete (NOT after each subtask)\n"
    \o "- All subtasks commit to this branch"
EmptyNotes ==
    "\n- **Implementation**:\n- **Files Created**:\n- **Files Modified**:\n- **Tests**:"
    \o "\n- **Build**:\n- **Branch**:\n- **Notes**:"
Footer ==
    "_This development plan is a living document. "
    \o "Update completion notes after each subtask._"

\* Facts about the text of a chunk.
IsSpace(c) == c \in {SP, NL}
SubMarkers == {SubMarker(id) : id \in SubtaskIds}
IsSubMarker(c) == c \in SubMarkers
Labels == {Label(name) : name \in LabelNames}
IsLabel(c) == c \in Labels
\* The chunk begins with a non-empty text without stars, followed by "**".
NotesTails == {NotesTail(id) : id \in SubtaskIds}
HasStarFreePrefix(c) ==
    \/ c \in {ImplLabel, EmptyNotes, HowToUse, Overview, Stack}
    \/ c \in NotesTails
\* Number of stars the chunk begins with (2 stands for two or more).
LeadingStars(c) ==
    IF c = Star THEN 1
    ELSE IF c \in {Bold, GitStrategyBlock, CurrentNext} \/ IsLabel(c) \/ IsSubMarker(c) THEN 2
    ELSE 0
HasStar(c) == LeadingStars(c) > 0 \/ HasStarFreePrefix(c)
Min(S) == CHOOSE x \in S : \A y \in S : x <= y

RECURSIVE LStripChunks(_)
LStripChunks(s) == IF s # <<>> /\ IsSpace(Head(s)) THEN LStripChunks(Tail(s)) ELSE s

RECURSIVE RStripChunks(_)
RStripChunks(s) ==
    IF s # <<>> /\ IsSpace(s[Len(s)]) THEN RStripChunks(SubSeq(s, 1, Len(s) - 1)) ELSE s

\* str_strip_whitespace of the request schemas, applied to plan_content.
StripDoc(s) == LStripChunks(RStripChunks(s))

\* server.py: the regular expression that finds a subtask's marker.  In
\* _extract_subtask_from_plan it is the marker, optional white space, a group
\* of one or more characters that are no star, and two stars; in
\* devplan_update_progress it is the marker, one or more characters that are
\* no star, and two stars.  Both need, after the colon, at least one
\* character that is no star and then two stars.
\* The index of the first chunk after i that holds a star (0: none).
FirstStarAfter(doc, i) ==
    LET S == {j \in (i + 1)..Len(doc) : HasStar(doc[j])}
    IN  IF S = {} THEN 0 ELSE Min(S)

\* Number of stars the text begins with at chunk j (2 stands for two or more).
StarsAt(doc, j) ==
    IF doc[j] = Star
    THEN (IF j < Len(doc) /\ LeadingStars(doc[j + 1]) >= 1 THEN 2 ELSE 1)
    ELSE LeadingStars(doc[j])

\* Mutant of MarkerMatchesAt: the literal marker alone counts (str.find).
MarkerMatchesAt_literal_only(doc, id, i) == doc[i] = SubMarker(id)

\* The expression matches with its first character at chunk i.
MarkerMatchesAt(doc, id, i) ==
    /\ doc[i] = SubMarker(id)
    /\ LET j == FirstStarAfter(doc, i)
       IN  /\ j # 0
           /\ \/ HasStarFreePrefix(doc[j])
              \/ j > i + 1 /\ StarsAt(doc, j) >= 2

\* re.search: the leftmost match (0: no match).
SubtaskSearch(doc, id) ==
    LET marker == SubMarker(id)
        S == {i \in 1..Len(doc) : doc[i] = marker /\ MarkerMatchesAt(doc, id, i)}
    IN  IF S = {} THEN 0 ELSE Min(S)

\* group(1).strip() of the match at chunk i.
MatchedTitle(doc, i) ==
    LET j == FirstStarAfter(doc, i)
        between == SubSeq(doc, i + 1, j - 1)
    IN  LStripChunks(RStripChunks(
            IF HasStarFreePrefix(doc[j]) THEN between \o <<NL, Dash>> ELSE between))

\* str.find of the literal marker (0: absent).
FindMarker(doc, id) ==
    LET marker == SubMarker(id)
        S == {i \in 1..Len(doc) : doc[i] = marker}
    IN  IF S = {} THEN 0 ELSE Min(S)

\* Mutant of SectionEnd: task headings are not looked for.
SectionEnd_subtasks_only(doc, start) ==
    LET S == {k \in (start + 1)..Len(doc) : IsSubMarker(doc[k])}
    IN  IF S = {} THEN Len(doc) + 1 ELSE Min(S)

\* end_pos / section_end: the next subtask marker or task heading found from
\* ten characters after the start (that is, after "**Subtask "), or the end.
SectionEnd(doc, start) ==
    LET S == {k \in (start + 1)..Len(doc) :
                 IsSubMarker(doc[k]) \/ doc[k] = TaskHeading}
    IN  IF S = {} THEN Len(doc) + 1 ELSE Min(S)

(***************************************************************************)
(* server.py: _extract_subtask_from_plan.  The view holds the fields the   *)
(* properties below read: id, title and completed.                         *)
(***************************************************************************)
NotFoundMessage(id) == "Subtask " \o id \o " not found in plan"

\* section.split("**Completion Notes**")[0]
BeforeNotes(section) ==
    LET S == {k \in 1..Len(section) : section[k] = NotesHeading}
    IN  IF S = {} THEN section ELSE SubSeq(section, 1, Min(S) - 1)

\* Mutant of SectionCompleted: a section without "[ ]" counts as completed.
SectionCompleted_without_checked(section) ==
    \A k \in 1..Len(BeforeNotes(section)) : BeforeNotes(section)[k] # Unchecked

\* "[x]" in section and "[ ]" not in section.split("**Completion Notes**")[0]
SectionCompleted(section) ==
    /\ \E k \in 1..Len(section) : section[k] = Checked
    /\ \A k \in 1..Len(BeforeNotes(section)) : BeforeNotes(section)[k] # Unchecked

\* start_pos and end_pos of the section _extract_subtask_from_plan reads.
located_section(doc, id) ==
    LET start_pos == SubtaskSearch(doc, id)
    IN  IF start_pos = 0
        THEN [called |-> TRUE, found |-> FALSE]
        ELSE [called |-> TRUE, found |-> TRUE,
              start_pos |-> start_pos, end_pos |-> SectionEnd(doc, start_pos)]

\* The dictionary returned, given the section sp that was found.
subtask_view(doc, id, sp) ==
    IF ~sp.found
    THEN [error |-> NotFoundMessage(id)]
    ELSE [id |-> id,
          title |-> MatchedTitle(doc, sp.start_pos),
          completed |-> SectionCompleted(SubSeq(doc, sp.start_pos, sp.end_pos - 1))]

_extract_subtask_from_plan(doc, id) == subtask_view(doc, id, located_section(doc, id))

(***************************************************************************)
(* server.py: devplan_update_progress.                                     *)
(***************************************************************************)
\* The text returned when the subtask is not found.
ErrorText(id) == <<"# Error\n\nSubtask " \o id \o " not found in plan">>

\* re.sub(r"\[ \]", "[x]", section)
CheckAllBoxes(section) ==
    [k \in 1..Len(section) |-> IF section[k] = Unchecked THEN Checked ELSE section[k]]

\* notes_replacement
NotesReplacement(id, notes) ==
    <<NotesHeading, ImplLabel>> \o notes \o <<NotesTail(id), NL, NL>>

\* Length of the match of notes_pattern that begins at the heading s[1]:
\* lazily up to the next "---", the next "**Subtask", or the end.
NotesMatchLen(s) ==
    LET S == {k \in 2..Len(s) : s[k] = Rule \/ IsSubMarker(s[k])}
    IN  IF S = {} THEN Len(s) ELSE Min(S) - 1

\* re.sub(notes_pattern, notes_replacement, section, flags=re.DOTALL): every
\* match, left to right, is replaced.
RECURSIVE ReplaceNotes(_, _)
ReplaceNotes(s, repl) ==
    IF s = <<>> THEN <<>>
    ELSE IF Head(s) = NotesHeading
         THEN repl \o ReplaceNotes(SubSeq(s, NotesMatchLen(s) + 1, Len(s)), repl)
         ELSE <<Head(s)>> \o ReplaceNotes(Tail(s), repl)

\* re.sub(tracking_pattern, r"\1x] \2", content): "- [ ] <id>:" becomes "- [x] <id>:".
FlipTracking(doc, id) ==
    [k \in 1..Len(doc) |->
        IF /\ doc[k] = Unchecked
           /\ k + 2 <= Len(doc)
           /\ doc[k + 1] = SP
           /\ doc[k + 2] = IdColon(id)
        THEN Checked ELSE doc[k]]

\* subtask_start and section_end of the section devplan_update_progress
\* rewrites.
patched_section(content, id) ==
    LET subtask_start == FindMarker(content, id)
    IN  IF SubtaskSearch(content, id) = 0
        THEN [called |-> TRUE, found |-> FALSE]
        ELSE [called |-> TRUE, found |-> TRUE,
              start_pos |-> subtask_start, end_pos |-> SectionEnd(content, subtask_start)]

\* The text devplan_update_progress returns, given the section sp it
\* rewrites.  re.sub expands the replacement as a template, so
\* a backslash followed by a letter that is no escape raises re.error when the
\* notes block is replaced; appended notes are not expanded.
updated_content(content, id, notes, sp) ==
    LET subtask_start == sp.start_pos
        section_end == sp.end_pos
        section == SubSeq(content, subtask_start, section_end - 1)
        updated == CheckAllBoxes(section)
        has_notes == \E k \in 1..Len(updated) : updated[k] = NotesHeading
        repl == NotesReplacement(id, notes)
        updated_section ==
            IF has_notes THEN ReplaceNotes(updated, repl)
            ELSE RStripChunks(updated) \o <<NL, NL>> \o repl
    IN  IF ~sp.found
        THEN [raised |-> FALSE, text |-> ErrorText(id)]
        ELSE IF has_notes /\ \E k \in 1..Len(notes) : notes[k] = BadEscape
        THEN [raised |-> TRUE, text |-> <<>>]
        ELSE [raised |-> FALSE,
              text |-> FlipTracking(SubSeq(content, 1, subtask_start - 1)
                                    \o updated_section
                                    \o SubSeq(content, section_end, Len(content)), id)]

devplan_update_progress(content, id, notes) ==
    updated_content(content, id, notes, patched_section(content, id))

(***************************************************************************)
(* Inputs of the locator/patcher: documents of up to MaxLines lines.  The  *)
(* request schemas strip the document, so it neither begins nor ends with  *)
(* white space.                                                            *)
(***************************************************************************)
SubtaskLine(id) == <<SubMarker(id), SP, Word, Bold>>
TitlelessLine(id) == <<SubMarker(id), Bold>>
UncheckedItem == <<Unchecked, SP, Word>>
CheckedItem == <<Checked, SP, Word>>
TrackingLine(id) == <<Unchecked, SP, IdColon(id), SP, Word>>
TaskLine == <<TaskHeading, SP, Word>>
PhaseLine == <<PhaseHeading("2"), SP, "Release">>
NotesLine == <<NotesHeading>>
RuleLine == <<Rule>>

LineInputs ==
    {SubtaskLine("1.1.1"), SubtaskLine("1.1.2"), TitlelessLine("1.1.1"),
     UncheckedItem, CheckedItem, TrackingLine("1.1.1"), TaskLine, PhaseLine, NotesLine,
     RuleLine}

RECURSIVE JoinLines(_)
JoinLines(lines) ==
    IF Len(lines) = 0 THEN <<>>
    ELSE IF Len(lines) = 1 THEN lines[1]
    ELSE lines[1] \o <<NL>> \o JoinLines(Tail(lines))

\* plan_content has at least a hundred characters: every document opens with
\* the plan's heading and introduction.
DocumentInputs ==
    {<<Preamble, NL>> \o JoinLines(ls) : ls \in SeqsUpTo(LineInputs, MaxLines) \ {<<>>}}

\* completion_notes has at least ten characters.
NotesInputs == {<<NoteText>>, <<NoteText, SP, Rule, SP, NoteText>>, <<BadEscape>>}

(***************************************************************************)
(* Specification of the locator/patcher: the client holds a plan, asks for *)
(* a subtask's view, and marks the subtask complete, writing back the text *)
(* it is returned.                                                         *)
(***************************************************************************)
InitPatch ==
    /\ GenIdle
    /\ RenderIdle
    /\ ParseIdle
    /\ OthersIdle
    /\ plan_content \in DocumentInputs
    /\ subtask_id \in RequestIds
    /\ completion_notes \in NotesInputs
    /\ prev_content = plan_content
    /\ calls = 0
    /\ response = NoResponse
    /\ view = NoView
    /\ located_span = NoSpan
    /\ patched_span = NoSpan

\* Whether the last devplan_update_progress returned an updated document.
Updated == calls > 0 /\ ~response.raised /\ response.text # ErrorText(subtask_id)

GetSubtask ==
    /\ view = NoView
    /\ LET d == StripDoc(plan_content)
           sp == located_section(d, subtask_id)
       IN  /\ located_span' = sp
           /\ view' = subtask_view(d, subtask_id, sp)
    /\ UNCHANGED <<genVars, renderVars, parseVars, otherVars>>
    /\ UNCHANGED <<plan_content, subtask_id, completion_notes, prev_content, calls, response>>
    /\ UNCHANGED patched_span

UpdateProgress ==
    /\ calls < MaxCalls
    /\ LET d == StripDoc(plan_content)
           sp == patched_section(d, subtask_id)
           r == updated_content(d, subtask_id, completion_notes, sp)
       IN  /\ patched_span' = sp
           /\ response' = r
           /\ plan_content' =
                 IF r.raised \/ r.text = ErrorText(subtask_id) THEN plan_content ELSE r.text
    /\ prev_content' = plan_content
    /\ calls' = calls + 1
    /\ view' = NoView
    /\ located_span' = NoSpan
    /\ UNCHANGED <<genVars, renderVars, parseVars, otherVars, subtask_id, completion_notes>>

NextPatch == GetSubtask \/ UpdateProgress

SpecPatch == InitPatch /\ [][NextPatch]_vars

(***************************************************************************)
(* Properties of the locator/patcher.  A subtask's span is stated here on  *)
(* its own: from the first marker of the id that carries a title (text     *)
(* without stars, closed by two stars) up to the next subtask marker, task *)
(* heading or end of document.                                             *)
(***************************************************************************)
TitledMarkerAt(doc, id, i) ==
    /\ doc[i] = SubMarker(id)
    /\ \E j \in (i + 1)..Len(doc) :
          /\ \A k \in (i + 1)..(j - 1) : ~HasStar(doc[k])
          /\ \/ HasStarFreePrefix(doc[j])
             \/ j > i + 1 /\ StarsAt(doc, j) >= 2

HasTitledMarker(doc, id) == \E i \in 1..Len(doc) : TitledMarkerAt(doc, id, i)

SpanStart(doc, id) == Min({i \in 1..Len(doc) : TitledMarkerAt(doc, id, i)})

\* One past the last chunk of the span that starts at s.
SpanEnd(doc, s) ==
    Min({k \in (s + 1)..(Len(doc) + 1) :
            k = Len(doc) + 1 \/ IsSubMarker(doc[k]) \/ doc[k] = TaskHeading})

SpanText(doc, id) == SubSeq(doc, SpanStart(doc, id), SpanEnd(doc, SpanStart(doc, id)) - 1)

Adjacent(doc, x, y) ==
    /\ HasTitledMarker(doc, x)
    /\ HasTitledMarker(doc, y)
    /\ \/ SpanEnd(doc, SpanStart(doc, x)) = SpanStart(doc, y)
       \/ SpanEnd(doc, SpanStart(doc, y)) = SpanStart(doc, x)

\* The document the last devplan_update_progress was given.
Given == StripDoc(prev_content)

\* Chunk k of the given document is the box of a line "- [ ] <id>:".
IsTrackingBox(doc, id, k) ==
    /\ doc[k] = Unchecked
    /\ k + 2 <= Len(doc)
    /\ doc[k + 1] = SP
    /\ doc[k + 2] = IdColon(id)

\* C3: patch locality.  After devplan_update_progress has updated subtask
\* X, the span of every other subtask Y whose span is adjacent to X's holds
\* the text it held before: no checkbox and no text of Y's span has changed.
C3_PatchLocality ==
    Updated =>
        \A y \in SubtaskIds \ {subtask_id} :
            Adjacent(Given, subtask_id, y) =>
                /\ HasTitledMarker(plan_content, y)
                /\ SpanText(plan_content, y) = SpanText(Given, y)

\* C4: frame of a patch.  The document returned for a found subtask X is
\* the given one before X's span start and after X's span end, except that
\* a box of a line "- [ ] X:" may have become "- [x] X:".
C4_FrameOutsideSpan ==
    Updated =>
        LET d == Given
            r == plan_content
            s == SpanStart(d, subtask_id)
            e == SpanEnd(d, s)
            shift == Len(r) - Len(d)
            Same(k, m) == \/ r[m] = d[k]
                          \/ IsTrackingBox(d, subtask_id, k) /\ r[m] = Checked
        IN  /\ Len(r) >= (s - 1) + (Len(d) - e + 1)
            /\ \A k \in 1..(s - 1) : Same(k, k)
            /\ \A k \in e..Len(d) : Same(k, k + shift)

\* C5: after devplan_update_progress has updated subtask X, once or twice
\* with the same notes, _extract_subtask_from_plan reports completed = true
\* for X.
C5_CompletedAfterPatch ==
    (Updated /\ view # NoView) => ("completed" \in DOMAIN view /\ view.completed)

\* Number of completion-notes headings in a text.
NotesBlocks(s) == Cardinality({k \in 1..Len(s) : s[k] = NotesHeading})

\* C6: patching is idempotent on the text.  A second devplan_update_progress
\* with the same id and notes returns the document the first returned, and
\* X's span holds exactly one completion-notes block.
C6_PatchIdempotent ==
    (calls >= 2 /\ Updated) =>
        /\ plan_content = prev_content
        /\ NotesBlocks(SpanText(plan_content, subtask_id)) = 1

\* C7: not found.  For a document without a titled marker of the requested
\* id, _extract_subtask_from_plan returns a record with the error field alone,
\* naming the id, and devplan_update_progress returns the not-found text and
\* does not raise; for a document with one, neither result is a not-found one.
C7_NotFound ==
    /\ ~HasTitledMarker(StripDoc(plan_content), subtask_id) =>
          /\ view # NoView => view = [error |-> NotFoundMessage(subtask_id)]
          /\ calls > 0 => ~response.raised /\ response.text = ErrorText(subtask_id)
    /\ HasTitledMarker(StripDoc(plan_content), subtask_id) =>
          /\ view # NoView => DOMAIN view = {"id", "title", "completed"} /\ view.id = subtask_id
          /\ calls > 0 => response.text # ErrorText(subtask_id)

\* A document that holds the literal marker of the id without a title has
\* been asked for and patched: both results are not-found results.
C7_Witness ==
    /\ FindMarker(plan_content, subtask_id) # 0
    /\ ~HasTitledMarker(plan_content, subtask_id)
    /\ view = [error |-> NotFoundMessage(subtask_id)]
    /\ calls > 0
    /\ response = [raised |-> FALSE, text |-> ErrorText(subtask_id)]

\* A chunk that opens another subtask or a task.
OpensSubtaskOrTask(c) == IsSubMarker(c) \/ c = TaskHeading

\* The span sp computed on document d for subtask id starts at a marker of
\* id, ends at the nearest of the next subtask marker, the next task heading
\* and the end of d, and holds no subtask marker or task heading after its
\* first chunk.
SpanIsBounded(d, id, sp) ==
    sp.found =>
        /\ sp.start_pos \in 1..Len(d)
        /\ d[sp.start_pos] = SubMarker(id)
        /\ sp.end_pos = Min({k \in (sp.start_pos + 1)..(Len(d) + 1) :
                                k = Len(d) + 1 \/ OpensSubtaskOrTask(d[k])})
        /\ \A k \in (sp.start_pos + 1)..(sp.end_pos - 1) : ~OpensSubtaskOrTask(d[k])

IsPhaseHeading(c) == c \in {PhaseHeading("1"), PhaseHeading("2")}

\* The span sp computed on document d holds no phase heading.
EndsBeforePhase(d, sp) ==
    sp.found => \A k \in sp.start_pos..(sp.end_pos - 1) : ~IsPhaseHeading(d[k])

\* Number of "[ ]" boxes of d, other than those of the tracking lines of the
\* patched subtask, from the first phase heading that follows chunk s.
UncheckedAfterPhase(d, s) ==
    LET P == {k \in (s + 1)..Len(d) : IsPhaseHeading(d[k])}
    IN  IF P = {} THEN 0
        ELSE Cardinality({k \in Min(P)..Len(d) :
                             d[k] = Unchecked /\ ~IsTrackingBox(d, subtask_id, k)})

\* C18: a subtask's span ends no later than the next phase heading that
\* follows the subtask, in _extract_subtask_from_plan and in
\* devplan_update_progress, and patching a subtask leaves every "[ ]" that
\* follows that phase heading unchecked.
C18_SpanEndsAtPhase ==
    /\ located_span.called => EndsBeforePhase(StripDoc(plan_content), located_span)
    /\ patched_span.called => EndsBeforePhase(Given, patched_span)
    /\ (Updated /\ patched_span.found) =>
          UncheckedAfterPhase(plan_content, patched_span.start_pos)
              = UncheckedAfterPhase(Given, patched_span.start_pos)

\* Two computed spans are the same: both not found, or both found with the
\* same start and the same end.
SameSpan(a, b) ==
    /\ a.found = b.found
    /\ a.found => a.start_pos = b.start_pos /\ a.end_pos = b.end_pos

\* C19: locate and patch agree on the span.  When the client has located
\* subtask X in a document and then patches X in the same document,
\* devplan_update_progress reports not found exactly when
\* _extract_subtask_from_plan did, and the span it rewrites starts and ends
\* where the span that was read does, also when the document holds more than
\* one occurrence of the marker text of X.
C19_LocateAndPatchAgree ==
    [][(located_span.called /\ calls' = calls + 1) =>
           SameSpan(located_span, patched_span')]_vars

HoldsNotes(r, s, notes) ==
    \E k \in s..Len(r) :
        /\ k + 1 + Len(notes) <= Len(r)
        /\ SubSeq(r, k, k + 1 + Len(notes)) = <<NotesHeading, ImplLabel>> \o notes

\* C21: for every notes text, devplan_update_progress on a found subtask
\* does not raise, and the document it returns holds in the subtask's span a
\* completion-notes block whose Implementation line carries the notes as
\* given, whether the block was replaced or appended.
C21_NotesVerbatim ==
    (calls > 0 /\ patched_span.found) =>
        /\ ~response.raised
        /\ HoldsNotes(plan_content, patched_span.start_pos, completion_notes)

\* The same for notes without a backslash.
C21_PlainNotesVerbatim ==
    (calls > 0 /\ patched_span.found /\ completion_notes # <<BadEscape>>) =>
        /\ ~response.raised
        /\ HoldsNotes(plan_content, patched_span.start_pos, completion_notes)

(***************************************************************************)
(* Specification of a client that follows the completed flag of one        *)
(* subtask while it patches subtasks of the plan, the followed one or      *)
(* others, with any notes.                                                 *)
(***************************************************************************)
InitMonotone ==
    /\ GenIdle
    /\ RenderIdle
    /\ ParseIdle
    /\ SharedIdle
    /\ ValidateIdle
    /\ CreateIdle
    /\ StudyIdle
    /\ plan_content \in DocumentInputs
    /\ watched_id \in RequestIds
    /\ completed_earlier = FALSE
    /\ subtask_id = ""
    /\ completion_notes = <<>>
    /\ prev_content = plan_content
    /\ calls = 0
    /\ response = NoResponse
    /\ view = NoView
    /\ located_span = NoSpan
    /\ patched_span = NoSpan

\* _extract_subtask_from_plan for the followed subtask.
FollowSubtask ==
    /\ view = NoView
    /\ LET d == StripDoc(plan_content)
           sp == located_section(d, watched_id)
       IN  /\ located_span' = sp
           /\ view' = subtask_view(d, watched_id, sp)
    /\ UNCHANGED <<genVars, renderVars, parseVars, sharedVars, validateVars, create_input, studyVars>>
    /\ UNCHANGED <<plan_content, subtask_id, completion_notes, prev_content, calls, response>>
    /\ UNCHANGED <<patched_span, monotoneVars>>

\* devplan_update_progress for any subtask with any notes.  The client keeps
\* the text of a successful call; the flag it last read is then one of an
\* earlier document.
PatchSubtask ==
    /\ calls < MaxCalls
    /\ \E id \in RequestIds, notes \in NotesInputs :
          LET d == StripDoc(plan_content)
              sp == patched_section(d, id)
              r == updated_content(d, id, notes, sp)
              success == ~r.raised /\ r.text # ErrorText(id)
          IN  /\ subtask_id' = id
              /\ completion_notes' = notes
              /\ patched_span' = sp
              /\ response' = r
              /\ plan_content' = IF success THEN r.text ELSE plan_content
              /\ view' = IF success THEN NoView ELSE view
              /\ located_span' = IF success THEN NoSpan ELSE located_span
              /\ completed_earlier' =
                    \/ completed_earlier
                    \/ success /\ "completed" \in DOMAIN view /\ view.completed
    /\ prev_content' = plan_content
    /\ calls' = calls + 1
    /\ UNCHANGED <<genVars, renderVars, parseVars, sharedVars, validateVars, create_input, studyVars>>
    /\ UNCHANGED watched_id

NextMonotone == FollowSubtask \/ PatchSubtask

SpecMonotone == InitMonotone /\ [][NextMonotone]_vars

\* Number of "[ ]" and of "[x]" boxes in a text.
UncheckedCount(s) == Cardinality({k \in 1..Len(s) : s[k] = Unchecked})
CheckedCount(s) == Cardinality({k \in 1..Len(s) : s[k] = Checked})

\* C22: completion is monotone under patching.  Once
\* _extract_subtask_from_plan has reported completed = true for subtask X,
\* it reports completed = true for X on every document produced by later
\* successful devplan_update_progress calls, on X or on other subtasks; and
\* no patch adds a "[ ]" to the document.
C22_CompletionMonotone ==
    /\ (completed_earlier /\ view # NoView) =>
          ("completed" \in DOMAIN view /\ view.completed)
    /\ Updated => UncheckedCount(plan_content) <= UncheckedCount(Given)

\* The second half of C22 alone: a successful patch adds no "[ ]".
C22_NoBoxUnchecked ==
    Updated => UncheckedCount(plan_content) <= UncheckedCount(Given)

(***************************************************************************)
(* templates.py: EmbeddedLoader.get_source and render_plan.  A template    *)
(* path is the sequence of its parts between "/"; a template_name is given *)
(* the same way, so that f"{template_name}/plan.md.j2".split("/") is the   *)
(* name's parts followed by "plan.md.j2".                                   *)
(***************************************************************************)
TemplateNames == {TemplateOrder[i] : i \in 1..Len(TemplateOrder)}

TemplateNotFound == [found |-> FALSE, source |-> <<>>]

\* The source is named by the family and the file it is taken from.
get_source(parts) ==
    IF Len(parts) # 2 THEN TemplateNotFound
    ELSE IF parts[1] \notin TemplateNames THEN TemplateNotFound
    ELSE IF parts[2] \notin TemplateFiles(parts[1])
    THEN (IF parts[2] \in TemplateFiles("base")
          THEN [found |-> TRUE, source |-> <<"base", parts[2]>>]
          ELSE TemplateNotFound)
    ELSE [found |-> TRUE, source |-> <<parts[1], parts[2]>>]

\* One list item per entry: "- [c] <entry>\n".
RECURSIVE ItemLines(_, _)
ItemLines(box, items) ==
    IF items = <<>> THEN <<>>
    ELSE <<box, SP>> \o Head(items) \o <<NL>> \o ItemLines(box, Tail(items))

\* Mutant of StatusBox: the box is never checked.
StatusBox_unchecked(subtask) == Unchecked

\* 'x' if subtask.status == 'completed' else ' '
StatusBox(subtask) == IF subtask.status = "completed" THEN Checked ELSE Unchecked

\* The body of the loop over task.subtasks in the phase sections.
RenderSubtask(subtask) ==
    <<NL, SubMarker(subtask.id), SP>> \o subtask.title \o <<Bold, NL, NL>>
    \o <<Label("Prerequisites"), NL>>
    \o (IF subtask.prerequisites # <<>>
        THEN ItemLines(Unchecked, subtask.prerequisites)
        ELSE <<"- None", NL>>)
    \o <<NL, NL, Label("Deliverables"), NL>>
    \o ItemLines(StatusBox(subtask), subtask.deliverables)
    \o <<NL, NL, NL, NL, NL, NL, NL, NL, Label("Success Criteria"), NL>>
    \o ItemLines(StatusBox(subtask), subtask.success_criteria)
    \o <<NL, NL, Rule, NL, NL, NotesHeading, EmptyNotes, NL, NL, NL, Rule, NL>>

RECURSIVE RenderSubtasks(_)
RenderSubtasks(subtasks) ==
    IF subtasks = <<>> THEN <<>>
    ELSE RenderSubtask(Head(subtasks)) \o RenderSubtasks(Tail(subtasks))

\* The body of the loop over phase.tasks in the phase sections.
RenderTask(task) ==
    <<NL, Rule, NL, NL, "### Task " \o task.id \o ":", SP>> \o task.title
    \o <<NL, NL, GitStrategyBlock, NL, NL, NL>>
    \o RenderSubtasks(task.subtasks) \o <<NL>>

RECURSIVE RenderTasks(_)
RenderTasks(tasks) ==
    IF tasks = <<>> THEN <<>> ELSE RenderTask(Head(tasks)) \o RenderTasks(Tail(tasks))

\* The progress-tracking lines of a task: one per subtask.
RECURSIVE TrackingLines(_)
TrackingLines(subtasks) ==
    IF subtasks = <<>> THEN <<>>
    ELSE <<StatusBox(Head(subtasks)), SP, IdColon(Head(subtasks).id), SP>>
         \o Head(subtasks).title \o <<NL>> \o TrackingLines(Tail(subtasks))

RECURSIVE RenderTracking(_)
RenderTracking(ps) ==
    IF ps = <<>> THEN <<>>
    ELSE LET phase == Head(ps)
             lines == [t \in 1..Len(phase.tasks) |-> TrackingLines(phase.tasks[t].subtasks)]
             RECURSIVE Flat(_)
             Flat(k) == IF k > Len(lines) THEN <<>> ELSE lines[k] \o Flat(k + 1)
         IN  <<NL, "### Phase " \o phase.id \o ":", SP>> \o phase.title \o <<NL, NL>>
             \o Flat(1) \o <<NL>> \o RenderTracking(Tail(ps))

RECURSIVE RenderPhases(_)
RenderPhases(ps) ==
    IF ps = <<>> THEN <<>>
    ELSE LET phase == Head(ps)
         IN  <<NL, "## Phase " \o phase.id \o ":", SP>> \o phase.title
             \o <<NL, NL, Label("Goal"), SP, phase.goal, NL, NL>>
             \o RenderTasks(phase.tasks) \o <<NL>> \o RenderPhases(Tail(ps))

\* template.render of base/plan.md.j2, line breaks as the template's
\* white-space control leaves them.
RenderBasePlan(ps) ==
    <<HowToUse, NL, NL, Rule, NL, NL, Overview, NL, NL, NL, NL, Rule, NL, NL>>
    \o <<Stack, NL, NL, NL, NL, NL, Rule, NL, NL, "## Progress Tracking", NL, NL>>
    \o RenderTracking(ps)
    \o <<NL, NL, CurrentNext, NL, NL, NL, Rule, NL, NL>>
    \o RenderPhases(ps)
    \o <<NL, NL, Rule, NL, NL, Footer>>

\* Mutant of render_plan: TemplateNotFound is not caught.
render_plan_without_fallback(name, ps) ==
    LET first == get_source(name \o <<"plan.md.j2">>)
    IN  IF ~first.found THEN [raised |-> TRUE, text |-> <<>>]
        ELSE [raised |-> FALSE,
              text |-> IF first.source = <<"base", "plan.md.j2">>
                       THEN RenderBasePlan(ps) ELSE first.source]

render_plan(name, ps) ==
    LET first == get_source(name \o <<"plan.md.j2">>)
        template == IF first.found THEN first ELSE get_source(<<"base", "plan.md.j2">>)
    IN  IF ~template.found THEN [raised |-> TRUE, text |-> <<>>]
        ELSE [raised |-> FALSE,
              text |-> IF template.source = <<"base", "plan.md.j2">>
                       THEN RenderBasePlan(ps) ELSE template.source]

(***************************************************************************)
(* Inputs of rendering: plans of one phase and one task with up to         *)
(* MaxSubtasks subtasks.  models.py accepts any text as a subtask's title  *)
(* and strips it; the titles here are plain, empty, and with one or two    *)
(* stars inside.                                                           *)
(***************************************************************************)
TitleInputs ==
    {<<Word>>, <<>>, <<"Parse", SP, Star, "args">>, <<"Use", SP, Bold, "kwargs">>}

ItemInputs ==
    {[prerequisites |-> <<>>, deliverables |-> <<>>, success_criteria |-> <<>>],
     [prerequisites |-> <<>>, deliverables |-> << <<Word>> >>, success_criteria |-> << <<Word>> >>],
     [prerequisites |-> << <<Word>> >>, deliverables |-> << <<Word>> >>,
      success_criteria |-> << <<Word>> >>]}

SubtaskInputs == TitleInputs \X {"pending", "completed"} \X ItemInputs

\* The titles are varied on the first subtask; the others have a plain one.
PlanInputs(n) ==
    {opts \in [1..n -> SubtaskInputs] : \A k \in 2..n : opts[k][1] = <<Word>>}

\* The phases of a plan whose only task has the subtasks chosen by opts.
PhasesOf(opts) ==
    << [id |-> "1", title |-> <<"Foundation">>, goal |-> "Set up the project",
        tasks |-> << [id |-> "1.1", title |-> <<Word>>,
                      subtasks |-> [k \in 1..Len(opts) |->
                          [id |-> SubtaskIdOf(k),
                           title |-> opts[k][1],
                           status |-> opts[k][2],
                           prerequisites |-> opts[k][3].prerequisites,
                           deliverables |-> opts[k][3].deliverables,
                           success_criteria |-> opts[k][3].success_criteria]]] >>] >>

TemplateNameInputs ==
    {<<"base">>, <<"cli">>, <<"web_app">>, <<"api">>, <<"library">>,
     <<"mobile">>, <<"">>, <<"base", "plan.md.j2">>, <<"..", "base">>}

\* The subtasks of a plan.
SubtasksOf(ps) ==
    {ps[p].tasks[t].subtasks[k] :
        <<p, t, k>> \in {x \in (1..Len(ps)) \X (1..1) \X (1..MaxSubtasks) :
                            /\ x[2] <= Len(ps[x[1]].tasks)
                            /\ x[3] <= Len(ps[x[1]].tasks[x[2]].subtasks)}}

(***************************************************************************)
(* Specification of rendering: a plan is rendered and the client asks for  *)
(* one of its subtasks in the text.  Template names are varied over the    *)
(* plans of one subtask.                                                   *)
(***************************************************************************)
InitRender ==
    /\ GenIdle
    /\ ParseIdle
    /\ OthersIdle
    /\ \E n \in 1..MaxSubtasks :
          /\ render_phases \in {PhasesOf(opts) : opts \in PlanInputs(n)}
          /\ render_name \in (IF n = 1 THEN TemplateNameInputs ELSE {<<"base">>})
          /\ subtask_id \in {SubtaskIdOf(k) : k \in 1..n}
    /\ rendered = NoRender
    /\ plan_content = <<>>
    /\ completion_notes = <<>>
    /\ prev_content = <<>>
    /\ calls = 0
    /\ response = NoResponse
    /\ view = NoView
    /\ located_span = NoSpan
    /\ patched_span = NoSpan

RenderPlan ==
    /\ rendered = NoRender
    /\ rendered' = render_plan(render_name, render_phases)
    /\ plan_content' = IF rendered'.raised THEN plan_content ELSE rendered'.text
    /\ UNCHANGED <<genVars, parseVars, otherVars, render_name, render_phases>>
    /\ UNCHANGED <<subtask_id, completion_notes, prev_content, calls, response, view>>
    /\ UNCHANGED <<located_span, patched_span>>

NextRender == RenderPlan \/ (rendered # NoRender /\ ~rendered.raised /\ GetSubtask)

SpecRender == InitRender /\ [][NextRender]_vars

\* The subtask of the rendered plan that the client asks about.
Asked == CHOOSE st \in SubtasksOf(render_phases) : st.id = subtask_id

\* C8: round trip.  For a rendered plan that holds subtask X,
\* _extract_subtask_from_plan on the text returns a found result whose id is
\* X and whose title is the subtask's title, whatever title the model accepts.
C8_RoundTrip ==
    (rendered # NoRender /\ ~rendered.raised /\ view # NoView) =>
        /\ "id" \in DOMAIN view
        /\ view.id = subtask_id
        /\ view.title = Asked.title

\* C23: completion state survives rendering.  For a rendered plan and a
\* subtask X of it, _extract_subtask_from_plan on the text reports completed
\* = true if and only if X's status is "completed", also for subtasks with
\* prerequisites and for subtasks without deliverables or success criteria.
C23_CompletionSurvivesRendering ==
    (rendered # NoRender /\ ~rendered.raised /\ view # NoView) =>
        /\ "completed" \in DOMAIN view
        /\ view.completed <=> (Asked.status = "completed")

\* The same for the subtasks that are found, have no prerequisites and have a
\* deliverable or a success criterion.
C23_WithBoxesAndNoPrerequisites ==
    (/\ rendered # NoRender /\ ~rendered.raised /\ view # NoView
     /\ "completed" \in DOMAIN view
     /\ Asked.prerequisites = <<>>
     /\ Asked.deliverables \o Asked.success_criteria # <<>>) =>
        (view.completed <=> (Asked.status = "completed"))

\* The index of the first chunk of text after chunk i that equals c.
FirstAfter(text, i, c) == Min({k \in (i + 1)..Len(text) : text[k] = c})

\* The box the claim expects for a subtask.
ExpectedBox(st) == IF st.status = "completed" THEN Checked ELSE Unchecked

\* A line "- [c] id: title" of subtask st begins at chunk k of text.
TrackingLineAt(text, k, st, box) ==
    /\ k > 1 /\ text[k - 1] = NL
    /\ k + 4 + Len(st.title) <= Len(text)
    /\ SubSeq(text, k, k + 4 + Len(st.title))
           = <<box, SP, IdColon(st.id), SP>> \o st.title \o <<NL>>

\* The lines of subtask st in the progress-tracking block, with either box.
TrackingLinesOf(text, st, box) ==
    LET from == FirstAfter(text, 0, "## Progress Tracking")
        to == FirstAfter(text, from, CurrentNext)
    IN  {k \in from..to : TrackingLineAt(text, k, st, box)}

\* The boxes of the deliverable and success-criterion lines of subtask st:
\* those between its Deliverables label and its completion notes.
ItemBoxesOf(text, st) ==
    LET marker == FirstAfter(text, 0, SubMarker(st.id))
        from == FirstAfter(text, marker, Label("Deliverables"))
        to == FirstAfter(text, from, NotesHeading)
    IN  {k \in from..to : text[k] \in {Checked, Unchecked}}

\* C24: in the text render_plan returns, every deliverable and
\* success-criterion line of every subtask is checked if and only if the
\* subtask's status is "completed", and the progress-tracking block holds
\* exactly one line "- [c] id: title" for the subtask, with c = x if and only
\* if the status is "completed".
C24_RenderedBoxes ==
    (rendered # NoRender /\ ~rendered.raised) =>
        \A st \in SubtasksOf(render_phases) :
            LET text == rendered.text
                other == IF ExpectedBox(st) = Checked THEN Unchecked ELSE Checked
            IN  /\ Cardinality(ItemBoxesOf(text, st))
                      = Len(st.deliverables) + Len(st.success_criteria)
                /\ \A k \in ItemBoxesOf(text, st) : text[k] = ExpectedBox(st)
                /\ Cardinality(TrackingLinesOf(text, st, ExpectedBox(st))) = 1
                /\ TrackingLinesOf(text, st, other) = {}

\* A plan with a completed and a pending subtask, both with deliverables,
\* has been rendered.
C24_Witness ==
    /\ rendered # NoRender /\ ~rendered.raised
    /\ \E a, b \in SubtasksOf(render_phases) :
          /\ a.status = "completed" /\ a.deliverables # <<>>
          /\ b.status = "pending" /\ b.deliverables # <<>>
          /\ ItemBoxesOf(rendered.text, a) # {}
          /\ ItemBoxesOf(rendered.text, b) # {}

\* C9: render_plan does not fail because of its template name: for a known
\* family and for any other name it returns the text that rendering with
\* "base" returns for the same phases.
C9_TemplateFallback ==
    rendered # NoRender =>
        /\ ~rendered.raised
        /\ rendered.text = RenderBasePlan(render_phases)
        /\ rendered = render_plan(<<"base">>, render_phases)

\* A name outside the known families, and one with a "/" inside, have been
\* rendered.
C9_Witness ==
    /\ rendered # NoRender
    /\ render_name \in {<<"mobile">>, <<"..", "base">>}
    /\ ~rendered.raised
    /\ SubMarker(subtask_id) \in {rendered.text[i] : i \in 1..Len(rendered.text)}

(***************************************************************************)
(* parser.py.  A brief is a sequence of lines and a line a sequence of     *)
(* pieces of text:                                                         *)
(*   a heading      <<"##", SP, text>>                                     *)
(*   a field line   <<Dash, SP, Label(name)>> followed by the value        *)
(*   a value        SP, words, the boxes "[x]" "[X]" "[ ]" and "+"         *)
(***************************************************************************)
BoxChecked == "[x]"
BoxUpper == "[X]"
BoxEmpty == "[ ]"
Plus == "+"

\* re.IGNORECASE on a field's label: the spellings of the label's letters.
FoldCase(c) == IF c = Label("project name") THEN Label("Project Name") ELSE c

\* re.match(r"^(#{1,6})\s+(.+)$", line)
IsHeading(line) ==
    /\ Len(line) >= 3
    /\ line[1] \in {"#", "##", "###"}
    /\ line[2] = SP
    /\ \E i \in 3..Len(line) : line[i] # SP
HeadingLevel(line) == CASE line[1] = "#" -> 1 [] line[1] = "##" -> 2 [] OTHER -> 3
HeadingText(line) == StripDoc(SubSeq(line, 3, Len(line)))

\* "\n".join(current_content).strip(): the lines without the blank ones at
\* either end.
RECURSIVE StripLines(_)
StripLines(ls) ==
    IF ls = <<>> THEN <<>>
    ELSE IF StripDoc(Head(ls)) = <<>> THEN StripLines(Tail(ls))
    ELSE IF StripDoc(ls[Len(ls)]) = <<>> THEN StripLines(SubSeq(ls, 1, Len(ls) - 1))
    ELSE ls

\* parse_markdown_content: the loop over the lines from line i on.  The
\* sections are the assignments made, in order; a later one for the same
\* heading replaces an earlier one.  current_section <<>> stands for None.
RECURSIVE ParseLines(_, _, _, _, _)
ParseLines(lines, i, current_section, current_content, sections) ==
    LET saved == IF current_section # <<>>
                 THEN Append(sections, [name |-> current_section,
                                        text |-> StripLines(current_content)])
                 ELSE sections
    IN  IF i > Len(lines) THEN saved
        ELSE IF IsHeading(lines[i])
        THEN (IF HeadingLevel(lines[i]) >= 2
              THEN ParseLines(lines, i + 1, HeadingText(lines[i]), <<>>, saved)
              ELSE ParseLines(lines, i + 1, current_section, current_content, saved))
        ELSE IF current_section # <<>>
        THEN ParseLines(lines, i + 1, current_section, Append(current_content, lines[i]), sections)
        ELSE ParseLines(lines, i + 1, current_section, current_content, sections)

parse_markdown_content(lines) == ParseLines(lines, 1, <<>>, <<>>, <<>>)

\* sections.get(name, ""): the last assignment for the heading.
SectionGet(sections, name) ==
    LET S == {k \in 1..Len(sections) : sections[k].name = <<name>>}
    IN  IF S = {} THEN <<>> ELSE sections[CHOOSE k \in S : \A j \in S : j <= k].text

\* The text after the label of a line that matches
\* ^-?\s*\*\*<field_name>\*\*:\s*(.+)$ once stripped (<<>>: no match).
FieldMatch(line, field_name) ==
    LET l == StripDoc(line)
        rest == IF l # <<>> /\ Head(l) = Dash THEN LStripChunks(Tail(l)) ELSE l
    IN  IF rest # <<>> /\ FoldCase(Head(rest)) = Label(field_name)
        THEN LStripChunks(Tail(rest)) ELSE <<>>

\* extract_field_value: the value of the first matching line, without a
\* leading "[x]" or "[ ]".
extract_field_value(text, field_name) ==
    LET S == {k \in 1..Len(text) : FieldMatch(text[k], field_name) # <<>>}
        value == FieldMatch(text[Min(S)], field_name)
    IN  IF S = {} THEN <<>>
        ELSE IF Head(value) \in {BoxChecked, BoxEmpty} THEN LStripChunks(Tail(value))
        ELSE value

\* project_type_line.split("+")
RECURSIVE SplitPlus(_)
SplitPlus(v) ==
    LET S == {k \in 1..Len(v) : v[k] = Plus}
    IN  IF S = {} THEN <<v>>
        ELSE <<SubSeq(v, 1, Min(S) - 1)>> \o SplitPlus(SubSeq(v, Min(S) + 1, Len(v)))

\* re.sub(r"\[x\]\s*", "", part, flags=re.IGNORECASE).strip()
RECURSIVE DropChecked(_)
DropChecked(part) ==
    IF part = <<>> THEN <<>>
    ELSE IF Head(part) \in {BoxChecked, BoxUpper} THEN DropChecked(LStripChunks(Tail(part)))
    ELSE <<Head(part)>> \o DropChecked(Tail(part))

\* The loop of extract_basic_info over the parts of the Project Type line.
RECURSIVE CollectTypes(_)
CollectTypes(parts) ==
    IF parts = <<>> THEN <<>>
    ELSE LET part == StripDoc(Head(parts))
             clean_part == StripDoc(DropChecked(part))
             kept == IF part # <<>> /\ Head(part) \in {BoxChecked, BoxUpper}
                     THEN (IF clean_part # <<>> THEN <<clean_part>> ELSE <<>>)
                     ELSE IF part # <<>> /\ Head(part) # BoxEmpty THEN <<part>>
                     ELSE <<>>
         IN  kept \o CollectTypes(Tail(parts))

extract_basic_info(sections) ==
    LET basic_info_section == SectionGet(sections, "Basic Information")
        project_type_line == extract_field_value(basic_info_section, "Project Type")
    IN  [project_name |-> extract_field_value(basic_info_section, "Project Name"),
         primary_goal |-> extract_field_value(basic_info_section, "Primary Goal"),
         target_users |-> extract_field_value(basic_info_section, "Target Users"),
         timeline |-> extract_field_value(basic_info_section, "Timeline"),
         team_size |-> extract_field_value(basic_info_section, "Team Size"),
         project_type |-> IF project_type_line = <<>> THEN <<>>
                          ELSE CollectTypes(SplitPlus(project_type_line))]

\* extract_list_items: the text of the lines that, once stripped, are a
\* bullet ("-", "*" or "+") or a number with a dot, white space and text.
IsListMark(c) == c \in {Dash, Star, Plus, "1.", "2."}
RECURSIVE extract_list_items(_)
extract_list_items(text) ==
    IF text = <<>> THEN <<>>
    ELSE LET line == StripDoc(Head(text))
             item == IF Len(line) >= 3 /\ IsListMark(line[1]) /\ IsSpace(line[2])
                     THEN LStripChunks(Tail(line)) ELSE <<>>
         IN  (IF item # <<>> THEN <<item>> ELSE <<>>) \o extract_list_items(Tail(text))

\* extract_requirements (the key features)
extract_requirements(sections) ==
    [key_features |-> extract_list_items(SectionGet(sections, "Key Features"))]

\* ", ".join(items)
RECURSIVE JoinComma(_)
JoinComma(items) ==
    IF items = <<>> THEN <<>>
    ELSE IF Len(items) = 1 THEN Head(items)
    ELSE Head(items) \o <<", ">> \o JoinComma(Tail(items))

\* The ValueError of _get_string_field and convert_to_project_brief.
MissingField(field_name) ==
    [status |-> "raised",
     message |-> <<"Failed to create ProjectBrief: ", "Required field '", field_name,
                   "' is missing or empty">>]

\* The fields ProjectBrief declares with min_length=1.
RequiredFields == <<"project_name", "primary_goal", "target_users", "timeline", "project_type">>

\* Mutant of convert_to_project_brief: team_size is passed as extracted.
convert_to_project_brief_without_default(basic_info, requirements) ==
    LET value(f) == IF f = "project_type" THEN JoinComma(basic_info.project_type)
                    ELSE StripDoc(basic_info[f])
        empty == {k \in 1..Len(RequiredFields) : value(RequiredFields[k]) = <<>>}
    IN  IF empty # {} THEN MissingField(RequiredFields[Min(empty)])
        ELSE [status |-> "ok",
              brief |-> [project_name |-> value("project_name"),
                         project_type |-> value("project_type"),
                         primary_goal |-> value("primary_goal"),
                         target_users |-> value("target_users"),
                         timeline |-> value("timeline"),
                         team_size |-> value("team_size"),
                         key_features |-> requirements.key_features]]

\* convert_to_project_brief with _get_string_field: the required fields are
\* checked in the order of RequiredFields and the first empty one is named;
\* an empty team_size becomes "1".  ProjectBrief's own validation
\* (min_length=1 after stripping) then finds nothing to reject.
convert_to_project_brief(basic_info, requirements) ==
    LET value(f) == IF f = "project_type" THEN JoinComma(basic_info.project_type)
                    ELSE StripDoc(basic_info[f])
        empty == {k \in 1..Len(RequiredFields) : value(RequiredFields[k]) = <<>>}
    IN  IF empty # {} THEN MissingField(RequiredFields[Min(empty)])
        ELSE [status |-> "ok",
              brief |-> [project_name |-> value("project_name"),
                         project_type |-> value("project_type"),
                         primary_goal |-> value("primary_goal"),
                         target_users |-> value("target_users"),
                         timeline |-> value("timeline"),
                         team_size |-> IF value("team_size") = <<>> THEN <<"1">>
                                       ELSE value("team_size"),
                         key_features |-> requirements.key_features]]

\* not content or not content.strip()
IsEmptyContent(lines) == \A k \in 1..Len(lines) : StripDoc(lines[k]) = <<>>

parse_project_brief(lines) ==
    IF IsEmptyContent(lines)
    THEN [status |-> "raised", message |-> <<"Brief content cannot be empty">>]
    ELSE LET sections == parse_markdown_content(lines)
         IN  convert_to_project_brief(extract_basic_info(sections),
                                      extract_requirements(sections))

(***************************************************************************)
(* server.py: _parse_brief_content.  A JSON text is written with the       *)
(* pieces "{" "}" "[" "]" ":" ",", quoted strings and other scalars; white *)
(* space between the pieces is SP or a line break.  The values of an       *)
(* object or an array are scalars.                                         *)
(***************************************************************************)
Quoted(s) == "\"" \o s \o "\""
\* The texts that occur between quotes.
JsonTexts ==
    {"project_name", "project_type", "primary_goal", "target_users", "timeline",
     "team_size", "notes", "Team Tracker", "CLI Tool", "Track the work of a team",
     "Developers", "2 weeks", "3", "", SP}
IsQuoted(c) == \E s \in JsonTexts : c = Quoted(s)
Unquote(c) == CHOOSE s \in JsonTexts : c = Quoted(s)
\* A number or one of the literals of JSON.
IsJsonLiteral(c) == c \in {"3", "14", "true", "null"}
IsScalar(c) == IsQuoted(c) \/ IsJsonLiteral(c)
ScalarValue(c) ==
    IF IsQuoted(c) THEN [kind |-> "str", value |-> Unquote(c)]
    ELSE [kind |-> "other", value |-> c]

\* The pieces of the text, without the white space between them.
RECURSIVE JsonTokens(_)
JsonTokens(lines) ==
    IF lines = <<>> THEN <<>>
    ELSE SelectSeq(Head(lines), LAMBDA c : ~IsSpace(c)) \o JsonTokens(Tail(lines))

\* key : value , key : value ...
IsMembers(m) ==
    /\ Len(m) % 4 = 3
    /\ \A i \in 1..Len(m) :
          CASE i % 4 = 1 -> IsQuoted(m[i])
            [] i % 4 = 2 -> m[i] = ":"
            [] i % 4 = 3 -> IsScalar(m[i])
            [] OTHER -> m[i] = ","
\* value , value ...
IsElements(m) ==
    /\ Len(m) % 2 = 1
    /\ \A i \in 1..Len(m) : IF i % 2 = 1 THEN IsScalar(m[i]) ELSE m[i] = ","

\* The dict of an object's members; a key given twice has its last value.
MembersDict(m) ==
    LET at == {i \in 1..Len(m) : i % 4 = 1}
        keys == {Unquote(m[i]) : i \in at}
        last(k) == CHOOSE i \in at :
                       /\ Unquote(m[i]) = k
                       /\ \A j \in at : Unquote(m[j]) = k => j <= i
    IN  [k \in keys |-> ScalarValue(m[last(k) + 2])]

\* json.loads(content): the value, or JSONDecodeError.
json_loads(lines) ==
    LET t == JsonTokens(lines)
        inner == SubSeq(t, 2, Len(t) - 1)
    IN  IF Len(t) = 1 /\ IsScalar(t[1])
        THEN [raised |-> FALSE, kind |-> "scalar", data |-> ScalarValue(t[1])]
        ELSE IF Len(t) >= 2 /\ t[1] = "[" /\ t[Len(t)] = "]"
                /\ (inner = <<>> \/ IsElements(inner))
        THEN [raised |-> FALSE, kind |-> "list", data |-> inner]
        ELSE IF Len(t) >= 2 /\ t[1] = "{" /\ t[Len(t)] = "}"
                /\ (inner = <<>> \/ IsMembers(inner))
        THEN [raised |-> FALSE, kind |-> "dict",
              data |-> IF inner = <<>> THEN <<>> ELSE MembersDict(inner)]
        ELSE [raised |-> TRUE, kind |-> "JSONDecodeError", data |-> <<>>]

\* pydantic's ValidationError, a ValueError (the count and the list of the
\* fields it names are left out).
ValidationError == [status |-> "raised", message |-> <<"validation errors for ProjectBrief">>]

\* str_strip_whitespace on a string of a JSON text.
StripText(v) == IF v = "" THEN <<>> ELSE StripDoc(<<v>>)

\* ProjectBrief(**data) for a dict: the five fields declared with
\* min_length=1 are strings that are not empty once stripped; team_size is a
\* string when given and "1" otherwise; other keys are ignored.
ProjectBrief(data) ==
    LET str(f) == f \in DOMAIN data /\ data[f].kind = "str"
        value(f) == StripText(data[f].value)
        required == {RequiredFields[k] : k \in 1..Len(RequiredFields)}
    IN  IF \/ \E f \in required : ~str(f) \/ value(f) = <<>>
           \/ "team_size" \in DOMAIN data /\ ~str("team_size")
        THEN ValidationError
        ELSE [status |-> "ok",
              brief |-> [project_name |-> value("project_name"),
                         project_type |-> value("project_type"),
                         primary_goal |-> value("primary_goal"),
                         target_users |-> value("target_users"),
                         timeline |-> value("timeline"),
                         team_size |-> IF "team_size" \in DOMAIN data
                                       THEN value("team_size") ELSE <<"1">>,
                         key_features |-> <<>>]]

\* _parse_brief_content: JSONDecodeError and the TypeError of ** on a value
\* that is no dict are caught and the content is parsed as markdown; what
\* ProjectBrief raises for a dict is not caught.
_parse_brief_content(lines) ==
    LET j == json_loads(lines)
    IN  IF j.raised \/ j.kind # "dict" THEN parse_project_brief(lines)
        ELSE ProjectBrief(j.data)

(***************************************************************************)
(* Inputs of brief parsing: a brief with a title, a section holding the    *)
(* six field lines of the basic information, each absent, blank or given   *)
(* in one of several forms, and a section of features; and empty briefs.   *)
(***************************************************************************)
FieldLine(name, value) == <<Dash, SP, Label(name)>> \o value

\* No line, a line without a value, a line with one, and the forms special
\* to a field.
FieldInputs(name, text) ==
    {<<>>, <<FieldLine(name, <<SP>>)>>, <<FieldLine(name, <<SP, text>>)>>}

ProjectNameInputs ==
    FieldInputs("Project Name", "Team Tracker")
    \cup {<<FieldLine("Project Name", <<SP, BoxChecked>>)>>,
          <<FieldLine("project name", <<SP, "Team Tracker">>)>>}

ProjectTypeLineInputs ==
    {<<>>,
     <<FieldLine("Project Type", <<SP, "CLI Tool">>)>>,
     <<FieldLine("Project Type", <<SP, BoxChecked, SP, "CLI Tool">>)>>,
     <<FieldLine("Project Type", <<SP, BoxEmpty, SP, "CLI Tool">>)>>,
     <<FieldLine("Project Type", <<SP, BoxEmpty, SP, "CLI Tool", SP, Plus, SP, BoxUpper, SP, "Library">>)>>,
     <<FieldLine("Project Type", <<SP, BoxChecked, SP, "CLI Tool", SP, Plus, SP, BoxEmpty, SP, "Library">>)>>,
     <<FieldLine("Project Type", <<SP, BoxEmpty, SP, Plus, SP, BoxEmpty, SP, "Library">>)>>}

SectionHeadingInputs ==
    {<<"##", SP, "Basic Information">>, <<"###", SP, "Basic Information">>,
     <<"#", SP, "Basic Information">>}

BriefContentInputs ==
    {<< <<"#", SP, "Project Brief">>, <<>>, h, <<>> >>
        \o f[1] \o f[2] \o f[3] \o f[4] \o f[5] \o f[6]
        \o << <<>>, <<"##", SP, "Key Features">>, <<>>, <<Dash, SP, "Fast">> >> :
        h \in SectionHeadingInputs,
        f \in ProjectNameInputs \X ProjectTypeLineInputs
              \X FieldInputs("Primary Goal", "Track the work of a team")
              \X {<<>>, <<FieldLine("Target Users", <<SP, "Developers">>)>>}
              \X FieldInputs("Timeline", "2 weeks")
              \X FieldInputs("Team Size", "3")}
    \cup {<<>>, << <<>> >>, << <<SP>>, <<>> >>}

\* JSON texts: objects whose members are some of the fields of a brief,
\* each a string, an empty or blank string or a number; an object with a
\* key given twice, one over two lines, one cut short; arrays and scalars.
Member(key, v) == <<Quoted(key), ":", SP, v>>

RECURSIVE JoinMembers(_)
JoinMembers(ms) ==
    IF ms = <<>> THEN <<>>
    ELSE IF Len(ms) = 1 THEN Head(ms)
    ELSE Head(ms) \o <<",", SP>> \o JoinMembers(Tail(ms))

Object(ms) == <<"{">> \o JoinMembers(ms) \o <<"}">>

MemberInputs(key, values) == {<<>>} \cup {<<Member(key, v)>> : v \in values}

JsonObjectInputs ==
    {Object(m[1] \o m[2] \o m[3] \o m[4] \o m[5] \o m[6]) :
        m \in MemberInputs("project_name", {Quoted("Team Tracker"), Quoted(""), Quoted(SP), "3"})
              \X MemberInputs("project_type", {Quoted("CLI Tool")})
              \X {<<Member("primary_goal", Quoted("Track the work of a team"))>>}
              \X {<<Member("target_users", Quoted("Developers"))>>}
              \X MemberInputs("timeline", {Quoted("2 weeks"), "14"})
              \X MemberInputs("team_size", {Quoted("3"), Quoted(""), "3", Quoted("notes")})}

JsonContentInputs ==
    {<<o>> : o \in JsonObjectInputs}
    \cup {<< <<"{">>, <<SP, SP>> \o Member("project_name", Quoted("Team Tracker")), <<"}">> >>,
          << Object(<<Member("timeline", Quoted("")), Member("timeline", Quoted("2 weeks"))>>) >>,
          << <<"{">> \o Member("project_name", Quoted("Team Tracker")) >>,
          << <<"{", Quoted("project_name"), "}">> >>,
          << <<"[", "]">> >>,
          << <<"[", Quoted("CLI Tool"), ",", SP, "3", "]">> >>,
          << <<"[", Quoted("CLI Tool"), ",", "]">> >>,
          << <<Quoted("Team Tracker")>> >>,
          << <<"3">> >>,
          << <<SP, "null">>, <<>> >>}

(***************************************************************************)
(* Specification of brief parsing: a brief is given, as markdown or as a   *)
(* JSON text, and parse_project_brief and _parse_brief_content are called  *)
(* on it.                                                                  *)
(***************************************************************************)
InitParse ==
    /\ GenIdle
    /\ PatchIdle
    /\ RenderIdle
    /\ OthersIdle
    /\ brief_content \in BriefContentInputs \cup JsonContentInputs
    /\ parsed = NoParse
    /\ extracted = NoParse
    /\ loaded = NoParse

\* parse_project_brief(content); extracted is what its second stage
\* extracted, when it got there.
ParseBrief ==
    /\ parsed = NoParse
    /\ parsed' = parse_project_brief(brief_content)
    /\ extracted' = IF IsEmptyContent(brief_content) THEN NoParse
                    ELSE extract_basic_info(parse_markdown_content(brief_content))
    /\ UNCHANGED <<genVars, patchVars, renderVars, otherVars, brief_content, loaded>>

\* _parse_brief_content(content)
ParseBriefContent ==
    /\ loaded = NoParse
    /\ loaded' = _parse_brief_content(brief_content)
    /\ UNCHANGED <<genVars, patchVars, renderVars, otherVars, brief_content, parsed, extracted>>

NextParse == ParseBrief \/ ParseBriefContent

SpecParse == InitParse /\ [][NextParse]_vars

\* The label under which a field of the Brief is written.
LabelOf(field) ==
    CASE field = "project_name" -> "Project Name"
      [] field = "project_type" -> "Project Type"
      [] field = "primary_goal" -> "Primary Goal"
      [] field = "target_users" -> "Target Users"
      [] field = "timeline" -> "Timeline"
      [] OTHER -> "Team Size"

\* A value holds text: something besides white space and a leading box.
HasText(value) ==
    \E i \in 1..Len(value) :
        /\ value[i] # SP
        /\ ~(value[i] \in {BoxChecked, BoxEmpty} /\ \A j \in 1..(i - 1) : value[j] = SP)

\* Line k lies in a "Basic Information" section.
InBasicInformation(lines, k) ==
    \E h \in 1..(k - 1) :
        /\ lines[h] \in {<<"##", SP, "Basic Information">>, <<"###", SP, "Basic Information">>}
        /\ \A m \in (h + 1)..(k - 1) : ~(Len(lines[m]) >= 1 /\ lines[m][1] \in {"##", "###"})

\* The brief gives the field: a line of the basic information carries the
\* field's label, in any case, and text after it.
Provided(lines, field) ==
    \E k \in 1..Len(lines) :
        /\ InBasicInformation(lines, k)
        /\ Len(lines[k]) > 3
        /\ FoldCase(lines[k][3]) = Label(LabelOf(field))
        /\ HasText(SubSeq(lines[k], 4, Len(lines[k])))

NoText(lines) == \A k \in 1..Len(lines) : \A i \in 1..Len(lines[k]) : lines[k][i] = SP

BriefFields == {"project_name", "project_type", "primary_goal", "target_users", "timeline"}

\* C10: parse_project_brief returns a Brief only when the five required
\* fields are non-empty; on an empty brief, or one that lacks or leaves blank
\* one of them, it raises an error that says the content is empty or names a
\* field that is missing; and a Brief it returns has non-empty values for
\* the five fields and for team_size.
C10_RequiredFields ==
    parsed # NoParse =>
        /\ parsed.status = "ok" =>
              /\ \A f \in BriefFields \cup {"team_size"} : StripDoc(parsed.brief[f]) # <<>>
              /\ \A f \in BriefFields : Provided(brief_content, f)
        /\ (NoText(brief_content) \/ \E f \in BriefFields : ~Provided(brief_content, f)) =>
              /\ parsed.status = "raised"
              /\ \/ NoText(brief_content)
                    /\ parsed.message = <<"Brief content cannot be empty">>
                 \/ \E f \in BriefFields :
                       /\ ~Provided(brief_content, f)
                       /\ parsed.message = MissingField(f).message

\* A brief that gives the project name and leaves the timeline blank has
\* been parsed: the error names the timeline.
C10_Witness ==
    /\ Provided(brief_content, "project_name")
    /\ Provided(brief_content, "primary_goal")
    /\ Provided(brief_content, "target_users")
    /\ ~Provided(brief_content, "timeline")
    /\ \E k \in 1..Len(brief_content) : brief_content[k] = FieldLine("Timeline", <<SP>>)
    /\ parsed = MissingField("timeline")

\* What the structured attempt of _parse_brief_content gives for the
\* content: a Brief, or the reason why it gives none.
StructuredAttempt(lines) ==
    LET j == json_loads(lines)
    IN  IF j.raised THEN "not JSON"
        ELSE IF j.kind # "dict" THEN "wrong shape"
        ELSE IF ProjectBrief(j.data).status # "ok" THEN "fails validation"
        ELSE "Brief"

\* C11: whenever the structured attempt of _parse_brief_content gives no
\* Brief (the content is not JSON, is JSON of another shape than an object,
\* or is an object that fails the validation of the Brief), the outcome of
\* the call is the outcome of parse_project_brief on the same content.
C11_JsonFallback ==
    (loaded # NoParse /\ StructuredAttempt(brief_content) # "Brief") =>
        loaded = parse_project_brief(brief_content)

\* The same for contents that are no JSON object: these do fall back.
C11_FallbackOutsideObjects ==
    (loaded # NoParse /\ StructuredAttempt(brief_content) \in {"not JSON", "wrong shape"}) =>
        loaded = parse_project_brief(brief_content)

\* The text after the label of the first Project Type line of the basic
\* information, as written in the brief (<<>>: no such line).
TypeLineValue(lines) ==
    LET section == SectionGet(parse_markdown_content(lines), "Basic Information")
        S == {k \in 1..Len(section) : FieldMatch(section[k], "Project Type") # <<>>}
    IN  IF S = {} THEN <<>> ELSE FieldMatch(section[Min(S)], "Project Type")

\* A segment of the line: checked, unchecked, bare or without text.
SegmentKind(seg) ==
    LET t == StripDoc(seg)
    IN  IF t = <<>> THEN "none"
        ELSE IF Head(t) \in {BoxChecked, BoxUpper} THEN "checked"
        ELSE IF Head(t) = BoxEmpty THEN "unchecked"
        ELSE "bare"
SegmentText(seg) ==
    LET t == StripDoc(seg)
    IN  IF SegmentKind(seg) = "checked" THEN StripDoc(Tail(t)) ELSE t

\* The checked and bare segments that hold text, in order.
RECURSIVE CollectedSegments(_)
CollectedSegments(segs) ==
    IF segs = <<>> THEN <<>>
    ELSE (IF SegmentKind(Head(segs)) \in {"checked", "bare"} /\ SegmentText(Head(segs)) # <<>>
          THEN <<SegmentText(Head(segs))>> ELSE <<>>)
         \o CollectedSegments(Tail(segs))

\* C12: the project_type that extract_basic_info builds is the list of the
\* checked and the bare segments of the Project Type line, split on "+", in
\* order; an unchecked segment is left out wherever it stands in the line.
C12_PlusSegments ==
    (extracted # NoParse /\ TypeLineValue(brief_content) # <<>>) =>
        extracted.project_type = CollectedSegments(SplitPlus(TypeLineValue(brief_content)))

\* The same for lines whose first segment is not unchecked.
C12_PlusSegmentsAfterFirst ==
    (/\ extracted # NoParse
     /\ TypeLineValue(brief_content) # <<>>
     /\ SegmentKind(Head(SplitPlus(TypeLineValue(brief_content)))) # "unchecked") =>
        extracted.project_type = CollectedSegments(SplitPlus(TypeLineValue(brief_content)))

(***************************************************************************)
(* parser.py: parse_markdown_content on its own.  The texts are up to      *)
(* MaxMarkdownLines lines, each a title of level 1, a heading of level 2   *)
(* or 3 (two of them with the same text), a line of text or a blank line.  *)
(***************************************************************************)
MarkdownLineInputs ==
    {<<"#", SP, "Overview">>, <<"##", SP, "Goals">>, <<"##", SP, "Scope">>,
     <<"###", SP, "Goals">>, <<"Ship">>, <<"Fast">>, <<>>}

MarkdownInputs == SeqsUpTo(MarkdownLineInputs, MaxMarkdownLines)

NoSections == [status |-> "none"]

InitSections ==
    /\ GenIdle
    /\ PatchIdle
    /\ RenderIdle
    /\ ParseIdle
    /\ SharedIdle
    /\ ValidateIdle
    /\ CreateIdle
    /\ MonotoneIdle
    /\ CyclesIdle
    /\ ReportIdle
    /\ markdown_content \in MarkdownInputs
    /\ section_map = NoSections

\* sections = parse_markdown_content(content)
ParseMarkdown ==
    /\ section_map = NoSections
    /\ section_map' = [status |-> "parsed",
                       sections |-> parse_markdown_content(markdown_content)]
    /\ UNCHANGED <<genVars, patchVars, renderVars, parseVars, sharedVars, validateVars,
                   create_input, monotoneVars, cycleVars, reportVars, markdown_content>>

NextSections == ParseMarkdown

SpecSections == InitSections /\ [][NextSections]_vars

\* Line i of the text is a heading of level 2 or deeper.
OpensSection(doc, i) == IsHeading(doc[i]) /\ HeadingLevel(doc[i]) >= 2

\* The line of the next heading of level 2 or deeper after line i
\* (Len(doc) + 1: none).
NextSectionLine(doc, i) ==
    LET S == {j \in (i + 1)..Len(doc) : OpensSection(doc, j)}
    IN  IF S = {} THEN Len(doc) + 1 ELSE Min(S)

\* No later heading of level 2 or deeper has the text of the one on line i.
IsLastOfItsText(doc, i) ==
    \A j \in (i + 1)..Len(doc) :
        OpensSection(doc, j) => HeadingText(doc[j]) # HeadingText(doc[i])

\* The lines that follow the heading on line i up to the next heading of
\* level 2 or deeper.
FollowingLines(doc, i) == SubSeq(doc, i + 1, NextSectionLine(doc, i) - 1)

IsTitleLine(line) == IsHeading(line) /\ HeadingLevel(line) = 1

\* The mapping has the key.
HasSection(sections, name) == \E k \in 1..Len(sections) : sections[k].name = name

C25_WithoutTitleLines ==
    section_map.status = "parsed" =>
        /\ \A i \in 1..Len(markdown_content) :
               (OpensSection(markdown_content, i) /\ IsLastOfItsText(markdown_content, i)) =>
                   /\ HasSection(section_map.sections, HeadingText(markdown_content[i]))
                   /\ SectionGet(section_map.sections, HeadingText(markdown_content[i])[1])
                          = StripLines(SelectSeq(FollowingLines(markdown_content, i),
                                                 LAMBDA line : ~IsTitleLine(line)))
        /\ \A k \in 1..Len(section_map.sections) :
               \E i \in 1..Len(markdown_content) :
                   /\ OpensSection(markdown_content, i)
                   /\ HeadingText(markdown_content[i]) = section_map.sections[k].name

(***************************************************************************)
(* server.py: devplan_create_brief.  The brief is the lines of the text    *)
(* the f-string gives; a value of the input is the sequence of its pieces, *)
(* stripped by the schema.                                                 *)
(***************************************************************************)
\* "\n".join(f"- **{k}**: {v}" ...) over the tech stack, a sequence of pairs.
TechItems(tech_stack) ==
    [i \in 1..Len(tech_stack) |-> <<Dash, SP, Label(tech_stack[i][1]), SP>> \o tech_stack[i][2]]

tech_stack_section(params) ==
    << <<>>, <<"##", SP, "Technical Requirements">>, <<>>, <<"###", SP, "Tech Stack">> >>
    \o (IF params.tech_stack # <<>> THEN TechItems(params.tech_stack)
        ELSE << <<Dash, SP, "To be determined based on project type">> >>)

\* c.lower().startswith("cannot"), and c.replace('Cannot use ', '')
StartsWithCannot(c) == c # <<>> /\ Head(c) \in {"Cannot use ", "cannot use "}
WithoutCannotUse(c) == SelectSeq(c, LAMBDA piece : piece # "Cannot use ")

\* The lines of constraints_section, after the line break each part opens with.
constraints_section(params) ==
    LET must_use == SelectSeq(params.constraints, LAMBDA c : ~StartsWithCannot(c))
        cannot_use == SelectSeq(params.constraints, StartsWithCannot)
    IN  (IF must_use # <<>>
         THEN << <<"###", SP, "Must Use">> >>
              \o [i \in 1..Len(must_use) |-> <<Dash, SP>> \o must_use[i]]
         ELSE <<>>)
        \o (IF cannot_use # <<>>
            THEN << <<"###", SP, "Cannot Use">> >>
                 \o [i \in 1..Len(cannot_use) |-> <<Dash, SP>> \o WithoutCannotUse(cannot_use[i])]
            ELSE <<>>)

devplan_create_brief(params) ==
    << <<"#", SP, "Project Brief:", SP>> \o params.name,
       <<>>,
       <<"##", SP, "Basic Information">>,
       <<>>,
       <<Dash, SP, Label("Project Name"), SP>> \o params.name,
       <<Dash, SP, Label("Project Type"), SP>> \o params.project_type,
       <<Dash, SP, Label("Primary Goal"), SP>> \o params.goal,
       <<Dash, SP, Label("Target Users"), SP>> \o JoinComma(params.target_users),
       <<Dash, SP, Label("Timeline"), SP>>
           \o (IF params.timeline = <<>> THEN <<"To be determined">> ELSE params.timeline),
       <<Dash, SP, Label("Team Size"), SP, "1">>,
       <<>>,
       <<"##", SP, "Functional Requirements">>,
       <<>>,
       <<"###", SP, "Key Features">> >>
    \o [i \in 1..Len(params.features) |-> <<Dash, SP>> \o params.features[i]]
    \o << <<>>,
          <<"###", SP, "Nice-to-Have Features">>,
          <<Dash, SP, "Additional features to be determined">> >>
    \o tech_stack_section(params)
    \o << <<>> >>
    \o (IF constraints_section(params) = <<>> THEN << <<>> >>
        ELSE << <<>> >> \o constraints_section(params))
    \o << <<"##", SP, "Success Criteria">>,
          <<>>,
          <<Dash, SP, "All key features implemented and working">>,
          <<Dash, SP, "Test coverage > 80%">>,
          <<Dash, SP, "Documentation complete">>,
          <<Dash, SP, "Ready for initial users">>,
          <<>>,
          <<Rule>>,
          <<>>,
          <<"*Generated with DevPlan MCP Server*">>,
          <<>> >>

\* The inputs CreateBriefInput accepts: name and goal are not empty;
\* project_type may be; target_users and features have an entry, which may
\* be empty; timeline, tech_stack and constraints may be absent (<<>>).
FeatureInputs == {<<"Fast">>, <<"Offline mode">>, <<>>}
CreateBriefInputs ==
    [name : {<<"Team Tracker">>, <<BoxChecked, SP, "Team Tracker">>},
     project_type : {<<"cli">>, <<"CLI Tool">>, <<>>, <<"cli", SP, Plus, SP, "api">>},
     goal : {<<"Track the work of a team">>},
     target_users : {<< <<"Developers">> >>, << <<"Developers">>, <<"Testers">> >>, << <<>> >>},
     features : SeqsUpTo(FeatureInputs, MaxFeatures) \ {<<>>},
     timeline : {<<>>, <<"2 weeks">>},
     tech_stack : {<<>>, << <<"language", <<"Python">> >> >>},
     constraints : {<<>>, << <<"Django">>, <<"Cannot use ", "Flask">> >>}]

(***************************************************************************)
(* Specification of brief creation: devplan_create_brief is called and the *)
(* text it returns is given to parse_project_brief.                        *)
(***************************************************************************)
InitCreate ==
    /\ GenIdle
    /\ PatchIdle
    /\ RenderIdle
    /\ ParseIdle
    /\ SharedIdle
    /\ ValidateIdle
    /\ LaterIdle
    /\ create_input \in CreateBriefInputs

CreateBrief ==
    /\ brief_content = <<>>
    /\ brief_content' = devplan_create_brief(create_input)
    /\ UNCHANGED <<genVars, patchVars, renderVars, sharedVars, validateVars, create_input, laterVars>>
    /\ UNCHANGED <<parsed, extracted, loaded>>

NextCreate == CreateBrief \/ (brief_content # <<>> /\ ParseBrief)

SpecCreate == InitCreate /\ [][NextCreate]_vars

\* C16: parse_project_brief succeeds on the text devplan_create_brief
\* returns for an accepted input, and the Brief has the name, the project
\* type and the goal given and the features given, in order.
C16_CreateBriefRoundTrip ==
    (create_input # NoInput /\ parsed # NoParse) =>
        /\ parsed.status = "ok"
        /\ parsed.brief.project_name = create_input.name
        /\ parsed.brief.project_type = create_input.project_type
        /\ parsed.brief.primary_goal = create_input.goal
        /\ parsed.brief.key_features = create_input.features

\* The same for inputs whose values are plain text: none is empty and none
\* holds a checkbox or a "+".
PlainText(v) == v # <<>> /\ \A i \in 1..Len(v) : v[i] \notin {BoxChecked, BoxUpper, BoxEmpty, Plus}
C16_RoundTripOfPlainText ==
    (/\ create_input # NoInput
     /\ parsed # NoParse
     /\ PlainText(create_input.name)
     /\ PlainText(create_input.project_type)
     /\ \A i \in 1..Len(create_input.target_users) : PlainText(create_input.target_users[i])
     /\ \A i \in 1..Len(create_input.features) : PlainText(create_input.features[i])) =>
        /\ parsed.status = "ok"
        /\ parsed.brief.project_name = create_input.name
        /\ parsed.brief.project_type = create_input.project_type
        /\ parsed.brief.primary_goal = create_input.goal
        /\ parsed.brief.key_features = create_input.features

(***************************************************************************)
(* models.py: the validations that return messages.  A plan is its phases, *)
(* a phase its tasks, a task its subtasks; a message is the sequence of    *)
(* the pieces of its text.                                                 *)
(***************************************************************************)
\* DevelopmentPlan.get_all_subtask_ids
get_all_subtask_ids(ps) ==
    UNION {UNION {{ps[p].tasks[t].subtasks[k].id : k \in 1..Len(ps[p].tasks[t].subtasks)} :
                      t \in 1..Len(ps[p].tasks)} :
              p \in 1..Len(ps)}

MissingPrerequisite(id, prereq) ==
    <<"Subtask ", id, ": prerequisite '", prereq, "' does not exist in the plan">>

\* The loop over a subtask's prerequisites.
RECURSIVE PrerequisiteErrors(_, _, _)
PrerequisiteErrors(id, prerequisites, all_subtask_ids) ==
    IF prerequisites = <<>> THEN <<>>
    ELSE (IF Head(prerequisites) \notin all_subtask_ids
          THEN <<MissingPrerequisite(id, Head(prerequisites))>> ELSE <<>>)
         \o PrerequisiteErrors(id, Tail(prerequisites), all_subtask_ids)

\* The loops over subtasks, tasks and phases.
RECURSIVE SubtasksErrors(_, _)
SubtasksErrors(subtasks, all_subtask_ids) ==
    IF subtasks = <<>> THEN <<>>
    ELSE PrerequisiteErrors(Head(subtasks).id, Head(subtasks).prerequisites, all_subtask_ids)
         \o SubtasksErrors(Tail(subtasks), all_subtask_ids)

RECURSIVE TasksErrors(_, _)
TasksErrors(tasks, all_subtask_ids) ==
    IF tasks = <<>> THEN <<>>
    ELSE SubtasksErrors(Head(tasks).subtasks, all_subtask_ids)
         \o TasksErrors(Tail(tasks), all_subtask_ids)

RECURSIVE PhasesErrors(_, _)
PhasesErrors(ps, all_subtask_ids) ==
    IF ps = <<>> THEN <<>>
    ELSE TasksErrors(Head(ps).tasks, all_subtask_ids) \o PhasesErrors(Tail(ps), all_subtask_ids)

\* Mutant of validate_prerequisites: a prerequisite resolves only against
\* the subtasks of the first phase.
validate_prerequisites_first_phase(ps) ==
    PhasesErrors(ps, get_all_subtask_ids(SubSeq(ps, 1, 1)))

\* DevelopmentPlan.validate_prerequisites
validate_prerequisites(ps) == PhasesErrors(ps, get_all_subtask_ids(ps))

SingleSession == "(Single Session)"

\* Subtask.validate_best_practices
validate_best_practices(st) ==
    (IF \A i \in 1..Len(st.title) : st.title[i] # SingleSession
     THEN << <<"Subtask title should include '(Single Session)' suffix">> >> ELSE <<>>)
    \o (IF Len(st.deliverables) < 3
        THEN << <<"Subtask has ", Len(st.deliverables), " deliverables, recommended minimum is 3">> >>
        ELSE IF Len(st.deliverables) > 7
        THEN << <<"Subtask has ", Len(st.deliverables), " deliverables, recommended maximum is 7">> >>
        ELSE <<>>)

\* Plans of one or two phases.  The first phase has one task with two
\* subtasks, the second, when there, one task with one subtask.  The
\* prerequisites are up to MaxPrerequisites ids, of subtasks of the plan or
\* of none.
PrerequisiteIds == {"1.1.1", "2.1.1", "9.9.9"}
PrerequisiteInputs == SeqsUpTo(PrerequisiteIds, MaxPrerequisites)
PlanSubtask(id, prerequisites) == [id |-> id, prerequisites |-> prerequisites]
PlanPhase(id, subtasks) ==
    [id |-> id, tasks |-> << [id |-> id \o ".1", subtasks |-> subtasks] >>]
CheckedPlanInputs ==
    {<<PlanPhase("1", <<PlanSubtask("1.1.1", <<>>), PlanSubtask("1.1.2", a)>>)>> :
        a \in PrerequisiteInputs}
    \cup {<<PlanPhase("1", <<PlanSubtask("1.1.1", <<>>), PlanSubtask("1.1.2", a)>>),
            PlanPhase("2", <<PlanSubtask("2.1.1", b)>>)>> :
             a \in PrerequisiteInputs, b \in PrerequisiteInputs}

\* Subtasks with 0 to MaxDeliverables deliverables, the title with and
\* without the words "(Single Session)".
CheckedSubtaskInputs ==
    {[title |-> t, deliverables |-> [i \in 1..n |-> <<Word>>]] :
        t \in {<<Word>>, <<Word, SP, SingleSession>>}, n \in 0..MaxDeliverables}

(***************************************************************************)
(* Specification of the validations: a plan and a subtask are given, and   *)
(* validate_prerequisites and validate_best_practices are called.          *)
(***************************************************************************)
InitValidate ==
    /\ GenIdle
    /\ PatchIdle
    /\ RenderIdle
    /\ ParseIdle
    /\ SharedIdle
    /\ CreateIdle
    /\ LaterIdle
    /\ checked_plan \in CheckedPlanInputs
    /\ prereq_errors = NotValidated
    /\ checked_subtask \in CheckedSubtaskInputs
    /\ practice_warnings = NotValidated

ValidatePrerequisites ==
    /\ ~prereq_errors.called
    /\ prereq_errors' = [called |-> TRUE, messages |-> validate_prerequisites(checked_plan)]
    /\ UNCHANGED <<genVars, patchVars, renderVars, parseVars, sharedVars, create_input, laterVars>>
    /\ UNCHANGED <<checked_plan, checked_subtask, practice_warnings>>

ValidateBestPractices ==
    /\ ~practice_warnings.called
    /\ practice_warnings' =
          [called |-> TRUE, messages |-> validate_best_practices(checked_subtask)]
    /\ UNCHANGED <<genVars, patchVars, renderVars, parseVars, sharedVars, create_input, laterVars>>
    /\ UNCHANGED <<checked_plan, checked_subtask, prereq_errors>>

NextValidate == ValidatePrerequisites \/ ValidateBestPractices

SpecValidate == InitValidate /\ [][NextValidate]_vars

\* The subtasks of the plan, and the entries of their prerequisite lists.
PlanSubtasks(ps) ==
    {<<p, t, k>> \in (1..Len(ps)) \X (1..1) \X (1..2) :
        t <= Len(ps[p].tasks) /\ k <= Len(ps[p].tasks[t].subtasks)}
SubtaskAt(ps, x) == ps[x[1]].tasks[x[2]].subtasks[x[3]]
PlanIds(ps) == {SubtaskAt(ps, x).id : x \in PlanSubtasks(ps)}
\* Number of entries equal to m in the prerequisites of the subtask at x.
EntriesOf(ps, x, m) ==
    Cardinality({i \in 1..Len(SubtaskAt(ps, x).prerequisites) :
                    SubtaskAt(ps, x).prerequisites[i] = m})
\* Number of messages that name the subtask id and the missing id m.
MessagesFor(messages, id, m) ==
    Cardinality({i \in 1..Len(messages) : messages[i][2] = id /\ messages[i][4] = m})

\* C14: validate_prerequisites returns, for every subtask and every id, as
\* many messages naming that subtask and that id as the subtask's
\* prerequisites hold entries equal to the id when the id is no subtask of
\* the plan, and none when it is; it returns no other message.
C14_UnresolvedPrerequisites ==
    prereq_errors.called =>
        /\ \A x \in PlanSubtasks(checked_plan) : \A m \in PrerequisiteIds :
              MessagesFor(prereq_errors.messages, SubtaskAt(checked_plan, x).id, m) =
                  IF m \in PlanIds(checked_plan) THEN 0 ELSE EntriesOf(checked_plan, x, m)
        /\ \A i \in 1..Len(prereq_errors.messages) :
              /\ Len(prereq_errors.messages[i]) = 5
              /\ prereq_errors.messages[i][2] \in PlanIds(checked_plan)
              /\ prereq_errors.messages[i][4] \in PrerequisiteIds \ PlanIds(checked_plan)

\* A plan of two phases has been validated in which a subtask of the first
\* phase names one of the second and twice an id of no subtask: two messages.
C14_Witness ==
    /\ prereq_errors.called
    /\ Len(checked_plan) = 2
    /\ checked_plan[1].tasks[1].subtasks[2].prerequisites = <<"9.9.9", "9.9.9">>
    /\ checked_plan[2].tasks[1].subtasks[1].prerequisites = <<"1.1.1", "2.1.1">>
    /\ Len(prereq_errors.messages) = 2

\* The warnings about the number of deliverables.
CountWarnings(messages) ==
    {i \in 1..Len(messages) : Len(messages[i]) = 3 /\ messages[i][1] = "Subtask has "}
IsMinimumWarning(m) == m[3] = " deliverables, recommended minimum is 3"
IsMaximumWarning(m) == m[3] = " deliverables, recommended maximum is 7"

\* C15: validate_best_practices returns a 'recommended minimum is 3' warning
\* for a subtask with fewer than 3 deliverables, a 'recommended maximum is 7'
\* warning for one with more than 7, and no warning for a subtask with 3 to
\* 7 deliverables.
C15_DeliverableWarnings ==
    practice_warnings.called =>
        LET n == Len(checked_subtask.deliverables)
            w == practice_warnings.messages
        IN  /\ n < 3 => \E i \in CountWarnings(w) : IsMinimumWarning(w[i])
            /\ n > 7 => \E i \in CountWarnings(w) : IsMaximumWarning(w[i])
            /\ (n >= 3 /\ n <= 7) => w = <<>>

\* The same, with "no warning about the number of deliverables" for 3 to 7.
C15_CountWarningsOnly ==
    practice_warnings.called =>
        LET n == Len(checked_subtask.deliverables)
            w == practice_warnings.messages
        IN  /\ n < 3 => \E i \in CountWarnings(w) : IsMinimumWarning(w[i])
            /\ n > 7 => \E i \in CountWarnings(w) : IsMaximumWarning(w[i])
            /\ (n >= 3 /\ n <= 7) => CountWarnings(w) = {}

(***************************************************************************)
(* models.py: DevelopmentPlan.validate_circular_dependencies.  visited and *)
(* rec_stack are the two sets the nested function shares with the loop     *)
(* over the subtasks; entered counts the calls of has_cycle.               *)
(***************************************************************************)
RECURSIVE SubtasksOfTasks(_)
SubtasksOfTasks(tasks) ==
    IF tasks = <<>> THEN <<>> ELSE Head(tasks).subtasks \o SubtasksOfTasks(Tail(tasks))

RECURSIVE SubtasksOfPhases(_)
SubtasksOfPhases(ps) ==
    IF ps = <<>> THEN <<>> ELSE SubtasksOfTasks(Head(ps).tasks) \o SubtasksOfPhases(Tail(ps))

\* prereq_graph[subtask.id] = subtask.prerequisites: the dictionary keeps
\* its keys in the order they were first assigned.
GraphPut(graph, id, prerequisites) ==
    IF \E k \in 1..Len(graph) : graph[k].id = id
    THEN [k \in 1..Len(graph) |->
             IF graph[k].id = id THEN [id |-> id, prerequisites |-> prerequisites]
             ELSE graph[k]]
    ELSE Append(graph, [id |-> id, prerequisites |-> prerequisites])

RECURSIVE GraphOf(_, _)
GraphOf(subtasks, graph) ==
    IF subtasks = <<>> THEN graph
    ELSE GraphOf(Tail(subtasks),
                 GraphPut(graph, Head(subtasks).id, Head(subtasks).prerequisites))

prereq_graph(ps) == GraphOf(SubtasksOfPhases(ps), <<>>)

\* Mutant of GraphGet: a subtask is no neighbor of itself.
GraphGet_without_self(graph, node) ==
    LET S == {k \in 1..Len(graph) : graph[k].id = node}
    IN  IF S = {} THEN <<>>
        ELSE SelectSeq(graph[CHOOSE k \in S : TRUE].prerequisites, LAMBDA n : n # node)

\* prereq_graph.get(node, [])
GraphGet(graph, node) ==
    LET S == {k \in 1..Len(graph) : graph[k].id = node}
    IN  IF S = {} THEN <<>> ELSE graph[CHOOSE k \in S : TRUE].prerequisites

CircularMessage(id) == <<"Circular dependency detected involving subtask ", id>>

\* has_cycle(node), and its loop over the neighbors that are left.  st holds
\* visited and rec_stack as they are when the call or the turn of the loop
\* begins; the result holds them as they are when it ends, and what was
\* returned.  A return of True leaves rec_stack as it is.
RECURSIVE has_cycle(_, _, _)
RECURSIVE NeighborLoop(_, _, _, _)
has_cycle(graph, node, st) ==
    NeighborLoop(graph, node, GraphGet(graph, node),
                 [found |-> FALSE,
                  visited |-> st.visited \cup {node},
                  rec_stack |-> st.rec_stack \cup {node},
                  entered |-> st.entered + 1])

NeighborLoop(graph, node, neighbors, st) ==
    IF neighbors = <<>>
    THEN [found |-> FALSE, visited |-> st.visited,
          rec_stack |-> st.rec_stack \ {node}, entered |-> st.entered]
    ELSE IF Head(neighbors) \notin st.visited
    THEN LET below == has_cycle(graph, Head(neighbors), st)
         IN  IF below.found THEN below
             ELSE NeighborLoop(graph, node, Tail(neighbors), below)
    ELSE IF Head(neighbors) \in st.rec_stack
    THEN [found |-> TRUE, visited |-> st.visited,
          rec_stack |-> st.rec_stack, entered |-> st.entered]
    ELSE NeighborLoop(graph, node, Tail(neighbors), st)

\* for subtask_id in prereq_graph: from the k-th key on.
RECURSIVE CheckLoop(_, _, _, _)
CheckLoop(graph, k, st, errors) ==
    IF k > Len(graph) THEN [called |-> TRUE, messages |-> errors, entered |-> st.entered]
    ELSE IF graph[k].id \in st.visited THEN CheckLoop(graph, k + 1, st, errors)
    ELSE LET traversal == has_cycle(graph, graph[k].id, st)
         IN  CheckLoop(graph, k + 1, traversal,
                       IF traversal.found
                       THEN Append(errors, CircularMessage(graph[k].id)) ELSE errors)

validate_circular_dependencies(ps) ==
    CheckLoop(prereq_graph(ps), 1,
              [found |-> FALSE, visited |-> {}, rec_stack |-> {}, entered |-> 0], <<>>)

\* Plans of one phase whose task has 1 to MaxCycleSubtasks subtasks, each
\* with no prerequisite, one, or two different ones, among the subtasks of
\* the plan (itself included) and an id of no subtask.
CycleIds(n) == {SubtaskIdOf(k) : k \in 1..n} \cup {"9.9.9"}
CyclePrerequisiteInputs(n) ==
    {<<>>} \cup {<<x>> : x \in CycleIds(n)}
    \cup {pair \in CycleIds(n) \X CycleIds(n) : pair[1] # pair[2]}
CyclePlan(n, choice) ==
    <<PlanPhase("1", [k \in 1..n |-> PlanSubtask(SubtaskIdOf(k), choice[k])])>>

InitCycles ==
    /\ GenIdle
    /\ PatchIdle
    /\ RenderIdle
    /\ ParseIdle
    /\ SharedIdle
    /\ ValidateIdle
    /\ CreateIdle
    /\ MonotoneIdle
    /\ SectionsIdle
    /\ ReportIdle
    /\ \E n \in 1..MaxCycleSubtasks :
           \E choice \in [1..n -> CyclePrerequisiteInputs(n)] :
               cycle_plan = CyclePlan(n, choice)
    /\ cycle_errors = [called |-> FALSE]

\* plan.validate_circular_dependencies()
ValidateCircularDependencies ==
    /\ ~cycle_errors.called
    /\ cycle_errors' = validate_circular_dependencies(cycle_plan)
    /\ UNCHANGED <<genVars, patchVars, renderVars, parseVars, sharedVars, validateVars,
                   create_input, monotoneVars, sectionVars, reportVars, cycle_plan>>

NextCycles == ValidateCircularDependencies

SpecCycles == InitCycles /\ [][NextCycles]_vars

\* The subtasks of the plan in the order of the document, their ids, and the
\* prerequisite relation among them: a subtask points at every subtask its
\* list names; names of no subtask point nowhere.
CycleSubtasks(ps) == ps[1].tasks[1].subtasks
CycleNodes(ps) == {CycleSubtasks(ps)[k].id : k \in 1..Len(CycleSubtasks(ps))}
Requires(ps) ==
    LET subs == CycleSubtasks(ps)
    IN  UNION {{<<subs[k].id, subs[k].prerequisites[i]>> :
                   i \in 1..Len(subs[k].prerequisites)} : k \in 1..Len(subs)}
        \cap (CycleNodes(ps) \X CycleNodes(ps))

\* The pairs joined by one or more steps of the relation.
RECURSIVE Chains(_, _)
Chains(steps, pairs) ==
    LET joined == pairs \cup {<<x[1][1], x[2][2]>> :
                                  x \in {pq \in pairs \X steps : pq[1][2] = pq[2][1]}}
    IN  IF joined = pairs THEN pairs ELSE Chains(steps, joined)


\* The subtask is a prerequisite of itself, directly or through others.
OnCycle(ps, id) == <<id, id>> \in Chains(Requires(ps), Requires(ps))

\* The subtask is on a cycle or requires, directly or through others, a
\* subtask that is.
ReachesCycle(ps, id) ==
    \/ OnCycle(ps, id)
    \/ \E other \in CycleNodes(ps) :
           <<id, other>> \in Chains(Requires(ps), Requires(ps)) /\ OnCycle(ps, other)

\* The ids that occur in the plan, as a subtask or as a prerequisite.
MentionedIds(ps) ==
    CycleNodes(ps)
    \cup UNION {{CycleSubtasks(ps)[k].prerequisites[i] :
                    i \in 1..Len(CycleSubtasks(ps)[k].prerequisites)} :
                k \in 1..Len(CycleSubtasks(ps))}

C28_NamedOnCycle ==
    cycle_errors.called =>
        \A i \in 1..Len(cycle_errors.messages) :
            OnCycle(cycle_plan, cycle_errors.messages[i][2])

\* What holds instead: every subtask named is on a cycle or requires one
\* that is.
C28_NamedReachesCycle ==
    cycle_errors.called =>
        \A i \in 1..Len(cycle_errors.messages) :
            ReachesCycle(cycle_plan, cycle_errors.messages[i][2])

(***************************************************************************)
(* server.py: devplan_validate_plan.  The content is the sequence of its   *)
(* pieces: the texts the checks look for are pieces of their own ("**",    *)
(* "---", the line break, the opening of a phase, a task or a subtask, its *)
(* number, the colon after it, the box that opens an item) and no other    *)
(* piece holds one of them.  A message is the sequence of its pieces, the  *)
(* report the sequence of its lines.  The marks before "Valid" and         *)
(* "Invalid" are left out.                                                 *)
(***************************************************************************)
PhaseOpening == <<"## Phase ">>
TaskOpening == <<"### Task ">>
SubtaskOpening == <<Bold, "Subtask ">>
DeliverablesLabel == <<Bold, "Deliverables", Bold, ":">>
PhaseNumbers == {"0", "1", "2"}
TaskNumbers == {"1.1"}
SubtaskNumbers == {"1.1.1"}

\* int(p)
PhaseNumber(p) == CASE p = "0" -> 0 [] p = "1" -> 1 [] OTHER -> 2

\* text in content, for a text that is a piece
HasPiece(content, piece) == \E i \in 1..Len(content) : content[i] = piece

\* "## Phase 0" in content: the opening of a phase and a number that begins
\* with 0.
HasPhaseZero(content) ==
    \E i \in 1..(Len(content) - 1) : content[i] = "## Phase " /\ content[i + 1] = "0"

\* "git_strategy" in content.lower()
HasGitKey(content) ==
    \E i \in 1..Len(content) : content[i] \in {"git_strategy", "GIT_STRATEGY"}

\* re.findall of an opening, a number (the group) and a colon, from piece i
\* on.
RECURSIVE NumberMatches(_, _, _, _)
NumberMatches(content, opening, numbers, i) ==
    LET n == Len(opening)
    IN  IF i + n + 1 > Len(content) THEN <<>>
        ELSE IF /\ content[i] = Head(opening)
                /\ SubSeq(content, i, i + n - 1) = opening
                /\ content[i + n] \in numbers
                /\ content[i + n + 1] = ":"
        THEN <<content[i + n]>> \o NumberMatches(content, opening, numbers, i + n + 2)
        ELSE NumberMatches(content, opening, numbers, i + 1)

\* phase_ids != list(range(len(phase_ids)))
NotSequential(phase_matches) ==
    \E k \in 1..Len(phase_matches) : PhaseNumber(phase_matches[k]) # k - 1

\* re.findall(r"\*\*Deliverables\*\*:(.*?)(?:\*\*|---)", content, re.DOTALL)
\* from piece i on: the group runs to the first "**" or "---" after the
\* label, and the search goes on after that piece; a label with neither
\* after it is no match.
RECURSIVE deliverable_sections(_, _)
deliverable_sections(content, i) ==
    IF i + 3 > Len(content) THEN <<>>
    ELSE IF content[i] = Bold /\ SubSeq(content, i, i + 3) = DeliverablesLabel
    THEN LET closes == {j \in (i + 4)..Len(content) : content[j] \in {Bold, "---"}}
         IN  IF closes = {} THEN deliverable_sections(content, i + 1)
             ELSE <<SubSeq(content, i + 4, Min(closes) - 1)>>
                  \o deliverable_sections(content, Min(closes) + 1)
    ELSE deliverable_sections(content, i + 1)

\* len(re.findall(r"^\s*-\s*\[", section, re.MULTILINE)): the boxes that
\* open a line of the section.
ItemCount(section) ==
    Cardinality({k \in 1..Len(section) :
                    /\ section[k] \in {Unchecked, Checked}
                    /\ (k = 1 \/ section[k - 1] = NL)})

\* The loop over the sections: the warnings, then the suggestions.
SectionWarnings(sections) ==
    LET few == SelectSeq([i \in 1..Len(sections) |-> <<i, ItemCount(sections[i])>>],
                         LAMBDA x : x[2] < 3)
    IN  [k \in 1..Len(few) |->
            <<"Subtask section ", few[k][1], " has only ", few[k][2],
              " deliverables (recommended: 3-7)">>]

SectionSuggestions(sections) ==
    LET many == SelectSeq([i \in 1..Len(sections) |-> <<i, ItemCount(sections[i])>>],
                          LAMBDA x : x[2] > 7)
    IN  [k \in 1..Len(many) |->
            <<"Subtask section ", many[k][1], " has ", many[k][2],
              " deliverables - consider splitting">>]

\* The three lists as they are when the report is built.
collected_errors(content) ==
    (IF ~HasPiece(content, "## Project Overview") /\ ~HasPiece(content, "## Overview")
     THEN << <<"Missing 'Project Overview' section">> >> ELSE <<>>)
    \o (IF ~HasPhaseZero(content) THEN << <<"Missing Phase 0 (Foundation)">> >> ELSE <<>>)
    \o (IF NumberMatches(content, PhaseOpening, PhaseNumbers, 1) = <<>>
        THEN << <<"No phases found in plan">> >> ELSE <<>>)

collected_warnings(content) ==
    LET phase_matches == NumberMatches(content, PhaseOpening, PhaseNumbers, 1)
    IN  (IF phase_matches # <<>> /\ NotSequential(phase_matches)
         THEN << <<"Phase IDs should be sequential starting from 0. Found: ",
                   [k \in 1..Len(phase_matches) |-> PhaseNumber(phase_matches[k])]>> >>
         ELSE <<>>)
        \o (IF NumberMatches(content, TaskOpening, TaskNumbers, 1) = <<>>
            THEN << <<"No tasks found - plan may be incomplete">> >> ELSE <<>>)
        \o (IF NumberMatches(content, SubtaskOpening, SubtaskNumbers, 1) = <<>>
            THEN << <<"No subtasks found - plan may be incomplete">> >> ELSE <<>>)
        \o SectionWarnings(deliverable_sections(content, 1))
        \o (IF ~HasPiece(content, "Success Criteria")
            THEN << <<"No Success Criteria sections found">> >> ELSE <<>>)

collected_suggestions(content) ==
    SectionSuggestions(deliverable_sections(content, 1))
    \o (IF ~HasPiece(content, "Git Strategy") /\ ~HasGitKey(content)
        THEN << <<"Consider adding Git Strategy section for each task">> >> ELSE <<>>)

\* Mutant of TotalErrors: strict does not count the warnings.
TotalErrors_without_warnings(errors, warnings, strict) == Len(errors)

\* total_errors, after  if params.strict: total_errors += total_warnings
TotalErrors(errors, warnings, strict) ==
    Len(errors) + (IF strict THEN Len(warnings) ELSE 0)

\* Mutant of Listing: the last item is not listed.
Listing_without_last(heading, items) ==
    IF items = <<>> THEN <<>>
    ELSE << <<heading>>, <<>> >>
         \o [i \in 1..(Len(items) - 1) |-> <<i, ". ", items[i]>>] \o << <<>> >>

\* The lines of a list of findings under its heading, none for an empty list.
Listing(heading, items) ==
    IF items = <<>> THEN <<>>
    ELSE << <<heading>>, <<>> >>
         \o [i \in 1..Len(items) |-> <<i, ". ", items[i]>>] \o << <<>> >>

\* report_lines
report_lines(errors, warnings, suggestions, strict) ==
    LET total_errors == TotalErrors(errors, warnings, strict)
        total_warnings == Len(warnings)
        total_suggestions == Len(suggestions)
        status == IF total_errors = 0 THEN "Valid" ELSE "Invalid"
    IN  << <<"# Plan Validation Report">>, <<>>,
           <<"**Status**: ", status>>, <<>>,
           <<"## Summary">>,
           <<"- Errors: ", total_errors>>,
           <<"- Warnings: ", total_warnings>>,
           <<"- Suggestions: ", total_suggestions>>,
           <<>> >>
        \o Listing("## Errors", IF strict THEN errors \o warnings ELSE errors)
        \o Listing("## Warnings", IF strict THEN <<>> ELSE warnings)
        \o Listing("## Suggestions", suggestions)

\* errors, warnings and suggestions are the lists as collected, before the
\* report is built from them.
devplan_validate_plan(params) ==
    LET errors == collected_errors(params.content)
        warnings == collected_warnings(params.content)
        suggestions == collected_suggestions(params.content)
    IN  [called |-> TRUE,
         errors |-> errors, warnings |-> warnings, suggestions |-> suggestions,
         report |-> report_lines(errors, warnings, suggestions, params.strict)]

\* The contents, stripped as ValidatePlanInput strips them: a title (long
\* enough for min_length = 100), an overview
\* heading or none, some phases, a task and a subtask or none, up to
\* MaxSections lists of deliverables (2, 3 or 8 items followed by success
\* criteria, 2 items followed by a rule, 8 items followed by nothing),
\* and a line on the git strategy or none.
PlanTitle ==
    "# Development Plan: the phases, tasks and subtasks that build the tracker for the work of a small team"
PhaseEntry(number) == <<"## Phase ", number, ":", " Build", NL>>
OverviewInputs == {<<>>, <<"## Project Overview", NL>>, <<"## Overview", NL>>}
PhasesInputs ==
    {<<>>, PhaseEntry("0"), PhaseEntry("0") \o PhaseEntry("1"), PhaseEntry("1"),
     PhaseEntry("0") \o PhaseEntry("2"), <<"## Phase ", "0", " Foundation", NL>>}
TasksInputs ==
    {<<>>, <<"### Task ", "1.1", ":", " Setup", NL>>,
     <<"### Task ", "1.1", ":", " Setup", NL, Bold, "Subtask ", "1.1.1", ":", " Setup", Bold, NL>>}
DeliverableLines(n) == [k \in 1..(3 * n) |-> CASE k % 3 = 1 -> Unchecked [] k % 3 = 2 -> " Built" [] OTHER -> NL]
DeliverablesInputs ==
    {DeliverablesLabel \o <<NL>> \o DeliverableLines(x[1]) \o x[2] :
        x \in ({2, 3, 8} \X {<<Bold, "Success Criteria", Bold, ":", NL, Unchecked, " Passes", NL>>})
              \cup {<<2, <<"---", NL>> >>, <<8, <<>> >>}}
RECURSIVE JoinAll(_)
JoinAll(parts) == IF parts = <<>> THEN <<>> ELSE Head(parts) \o JoinAll(Tail(parts))
GitInputs ==
    {<<>>, <<Bold, "Git Strategy", Bold, ":", " squash">>, <<"GIT_STRATEGY", ":", " squash">>}

NoReport == [called |-> FALSE]

InitReport ==
    /\ GenIdle
    /\ PatchIdle
    /\ RenderIdle
    /\ ParseIdle
    /\ SharedIdle
    /\ ValidateIdle
    /\ CreateIdle
    /\ MonotoneIdle
    /\ SectionsIdle
    /\ CyclesIdle
    /\ \E overview \in OverviewInputs, phases \in PhasesInputs, tasks \in TasksInputs,
          lists \in SeqsUpTo(DeliverablesInputs, MaxSections), git \in GitInputs,
          strict \in BOOLEAN :
           validate_params =
               [content |-> StripDoc(<<PlanTitle, NL>> \o overview \o phases \o tasks
                                     \o JoinAll(lists) \o git),
                strict |-> strict]
    /\ validation_report = NoReport

\* devplan_validate_plan(params)
ValidatePlan ==
    /\ ~validation_report.called
    /\ validation_report' = devplan_validate_plan(validate_params)
    /\ UNCHANGED <<genVars, patchVars, renderVars, parseVars, sharedVars, validateVars,
                   create_input, monotoneVars, sectionVars, cycleVars, validate_params>>

NextReport == ValidatePlan

SpecReport == InitReport /\ [][NextReport]_vars

\* What the report says: its status, the number after a label of the
\* summary, and the number of items listed under a heading.
ReportedStatus(report) ==
    LET k == CHOOSE i \in 1..Len(report) :
                 Len(report[i]) = 2 /\ report[i][1] = "**Status**: "
    IN  report[k][2]
SummaryCount(report, label) ==
    LET k == CHOOSE i \in 1..Len(report) : Len(report[i]) = 2 /\ report[i][1] = label
    IN  report[k][2]
IsReportHeading(line) == Len(line) = 1 /\ line[1] \in {"## Errors", "## Warnings", "## Suggestions"}
ItemsUnder(report, heading) ==
    Cardinality({i \in 1..Len(report) :
        /\ Len(report[i]) = 3
        /\ report[i][2] = ". "
        /\ \E h \in 1..(i - 1) :
               /\ report[h] = <<heading>>
               /\ \A j \in (h + 1)..(i - 1) : ~IsReportHeading(report[j])})

C30_CountsMatchListings ==
    validation_report.called =>
        /\ SummaryCount(validation_report.report, "- Errors: ")
               = ItemsUnder(validation_report.report, "## Errors")
        /\ SummaryCount(validation_report.report, "- Warnings: ")
               = ItemsUnder(validation_report.report, "## Warnings")
        /\ SummaryCount(validation_report.report, "- Suggestions: ")
               = ItemsUnder(validation_report.report, "## Suggestions")

\* What holds instead: the counts of errors and suggestions match in both
\* modes, the count of warnings without strict.
C30_CountsMatchWithoutStrict ==
    validation_report.called =>
        /\ SummaryCount(validation_report.report, "- Errors: ")
               = ItemsUnder(validation_report.report, "## Errors")
        /\ ~validate_params.strict =>
               SummaryCount(validation_report.report, "- Warnings: ")
                   = ItemsUnder(validation_report.report, "## Warnings")
        /\ SummaryCount(validation_report.report, "- Suggestions: ")
               = ItemsUnder(validation_report.report, "## Suggestions")

(***************************************************************************)
(* Concurrent callers.  Each caller runs one public operation on its own   *)
(* argument; the steps of different callers interleave.  The steps that    *)
(* read TEMPLATES or DEFAULT_PHASES read the tables as they are at that    *)
(* moment.                                                                 *)
(***************************************************************************)
Callers == 1..MaxCallers

IdleCaller == [op |-> "none", arg |-> <<>>, pc |-> "idle", local |-> <<>>, result |-> <<>>]

\* select_template over the table it is given.
SelectFrom(table, project_type) ==
    LET normalized == Strip(Lower(project_type))
        matches(i) == \E k \in 1..Len(table[i].project_types) :
                          LET ptype == table[i].project_types[k]
                          IN  normalized = ptype \/ IsSubstr(normalized, ptype)
                                  \/ IsSubstr(ptype, normalized)
        hits == {i \in 1..Len(table) : table[i].name # "base" /\ matches(i)}
    IN  IF hits = {} THEN "base" ELSE table[Min(hits)].name

\* generate_phases over the table it is given, for the family selected.
PhasesFrom(table, template_name) ==
    LET phase_templates == IF template_name \in DOMAIN table THEN table[template_name]
                           ELSE table["base"]
    IN  [i \in 1..Len(phase_templates) |->
            [id |-> IntToStr(i - 1),
             title |-> phase_templates[i].title,
             goal |-> phase_templates[i].goal,
             days |-> "",
             description |-> "",
             tasks |-> <<>>]]

\* generate_plan from the tech stack on, with the phases generated.
AssemblePlan(b, phases) ==
    LET tech_stack == generate_tech_stack(b)
        plan == [project_name |-> b.project_name, phases |-> phases, tech_stack |-> tech_stack]
        errors == _validate_plan_structure(plan)
    IN  IF tech_stack.raised # ""
        THEN [status |-> "raised", error |-> tech_stack, plan |-> <<>>]
        ELSE IF errors # <<>>
        THEN [status |-> "raised",
              error |-> [raised |-> "ValueError", kind |-> "Plan validation failed", conflicts |-> {}],
              plan |-> <<>>]
        ELSE [status |-> "ok", error |-> <<>>, plan |-> plan]

\* EmbeddedLoader.get_source over the table it is given.
SourceFrom(table, parts) ==
    LET at(n) == {i \in 1..Len(table) : table[i].name = n}
        files(n) == table[Min(at(n))].files
    IN  IF Len(parts) # 2 THEN TemplateNotFound
        ELSE IF at(parts[1]) = {} THEN TemplateNotFound
        ELSE IF parts[2] \notin files(parts[1])
        THEN (IF at("base") # {} /\ parts[2] \in files("base")
              THEN [found |-> TRUE, source |-> <<"base", parts[2]>>]
              ELSE TemplateNotFound)
        ELSE [found |-> TRUE, source |-> <<parts[1], parts[2]>>]

\* Mutant of TablesAfter: generate_phases takes the entries out of the
\* family's list as it reads them (phase_templates.pop(0)).
TablesAfter_popped(tables, op, local) ==
    IF op = "generate_plan"
    THEN [tables EXCEPT !.phases = [name \in DOMAIN @ |->
                                       IF name = local THEN Tail(@[name]) ELSE @[name]]]
    ELSE tables

\* The tables after a step of an operation: no statement of the operations
\* assigns to TEMPLATES, to DEFAULT_PHASES or to an object they hold.
TablesAfter(tables, op, local) == tables

\* The calls made: each public operation with one or two arguments.
SharedBrief(project_type) ==
    [project_name |-> "Foo", project_type |-> project_type,
     must_use_tech |-> <<>>, cannot_use_tech |-> <<>>]
SharedDocument ==
    <<Preamble, NL>> \o JoinLines(<<SubtaskLine(SubtaskIdOf(1)), UncheckedItem, NotesLine>>)
SharedContent ==
    << <<"##", SP, "Basic Information">>, FieldLine("Project Name", <<SP, "Team Tracker">>) >>
CallInputs ==
    {[op |-> "generate_plan", arg |-> SharedBrief(t)] :
        t \in {<<"C", "L", "I", " ", "T", "o", "o", "l">>, <<"G", "a", "m", "e">>}}
    \cup {[op |-> "render_plan",
           arg |-> [name |-> n,
                    phases |-> PhasesOf(<< <<<<Word>>, "pending", CHOOSE i \in ItemInputs :
                                                 i.prerequisites # <<>> >> >>)]] :
             n \in {<<"cli">>, <<"mobile">>}}
    \cup {[op |-> "parse_project_brief", arg |-> SharedContent],
          [op |-> "_extract_subtask_from_plan",
           arg |-> [doc |-> SharedDocument, id |-> SubtaskIdOf(1)]],
          [op |-> "devplan_update_progress",
           arg |-> [doc |-> SharedDocument, id |-> SubtaskIdOf(1), notes |-> <<NoteText>>]]}

\* What the operation returns when it runs alone.
Alone(op, arg) ==
    CASE op = "generate_plan" -> generate_plan(arg)
      [] op = "render_plan" -> render_plan(arg.name, arg.phases)
      [] op = "parse_project_brief" -> parse_project_brief(arg)
      [] op = "_extract_subtask_from_plan" -> _extract_subtask_from_plan(arg.doc, arg.id)
      [] OTHER -> devplan_update_progress(arg.doc, arg.id, arg.notes)

Tables == [templates |-> templates_table, phases |-> phases_table]

\* A step of caller c that leaves it at position pc with the local value and
\* the result given.
StepTo(c, pc, local, result) ==
    /\ callers' = [callers EXCEPT ![c].pc = pc, ![c].local = local, ![c].result = result]
    /\ templates_table' = TablesAfter(Tables, callers[c].op, local).templates
    /\ phases_table' = TablesAfter(Tables, callers[c].op, local).phases
    /\ UNCHANGED <<genVars, patchVars, renderVars, parseVars, validateVars, create_input, laterVars>>

\* A caller calls an operation.
Call(c) ==
    /\ callers[c].pc = "idle"
    /\ \E call \in CallInputs :
          callers' = [callers EXCEPT ![c] = [op |-> call.op, arg |-> call.arg, pc |-> "called",
                                             local |-> <<>>, result |-> <<>>]]
    /\ UNCHANGED <<genVars, patchVars, renderVars, parseVars, validateVars, create_input, laterVars, templates_table,
                 phases_table>>

\* generate_plan: generate_phases calls select_template, which reads TEMPLATES.
SelectTemplate(c) ==
    /\ callers[c].op = "generate_plan" /\ callers[c].pc = "called"
    /\ StepTo(c, "selected", SelectFrom(templates_table, callers[c].arg.project_type), <<>>)

\* generate_plan: generate_phases reads DEFAULT_PHASES and the plan is
\* assembled and returned.
GeneratePhases(c) ==
    /\ callers[c].op = "generate_plan" /\ callers[c].pc = "selected"
    /\ StepTo(c, "done", callers[c].local,
              AssemblePlan(callers[c].arg, PhasesFrom(phases_table, callers[c].local)))

\* render_plan: env.get_template reads TEMPLATES through the loader, a
\* second time for the base family when the first raises.
GetTemplate(c) ==
    /\ callers[c].op = "render_plan" /\ callers[c].pc = "called"
    /\ LET first == SourceFrom(templates_table, callers[c].arg.name \o <<"plan.md.j2">>)
       IN  StepTo(c, "loaded",
                  IF first.found THEN first
                  ELSE SourceFrom(templates_table, <<"base", "plan.md.j2">>), <<>>)

\* render_plan: template.render.
RenderTemplate(c) ==
    /\ callers[c].op = "render_plan" /\ callers[c].pc = "loaded"
    /\ LET template == callers[c].local
       IN  StepTo(c, "done", template,
                  IF ~template.found THEN [raised |-> TRUE, text |-> <<>>]
                  ELSE [raised |-> FALSE,
                        text |-> IF template.source = <<"base", "plan.md.j2">>
                                 THEN RenderBasePlan(callers[c].arg.phases)
                                 ELSE template.source])

\* parse_project_brief, _extract_subtask_from_plan and
\* devplan_update_progress read their arguments only.
RunOnArgument(c) ==
    /\ callers[c].op \in {"parse_project_brief", "_extract_subtask_from_plan",
                          "devplan_update_progress"}
    /\ callers[c].pc = "called"
    /\ StepTo(c, "done", <<>>, Alone(callers[c].op, callers[c].arg))

InitShared ==
    /\ GenIdle
    /\ PatchIdle
    /\ RenderIdle
    /\ ParseIdle
    /\ ValidateIdle
    /\ CreateIdle
    /\ LaterIdle
    /\ templates_table = InitialTemplates
    /\ phases_table = InitialPhases
    /\ callers = [c \in Callers |-> IdleCaller]

NextShared ==
    \E c \in Callers :
        \/ Call(c)
        \/ SelectTemplate(c)
        \/ GeneratePhases(c)
        \/ GetTemplate(c)
        \/ RenderTemplate(c)
        \/ RunOnArgument(c)

SpecShared == InitShared /\ [][NextShared]_vars

====
